---- MODULE Spec2Model ----
(***************************************************************************)
(* TaskTrackerPro: account-balance maintenance of the storage layer        *)
(* (server/storage.ts), the selection of the storage backend at module     *)
(* load, and the analytics aggregation of the route layer                  *)
(* (server/routes.ts).                                                     *)
(*                                                                         *)
(* Money.  The schema types balances and amounts as decimal(15,2) strings. *)
(* A decimal string is the record [neg, int, frac] of its sign, integer    *)
(* part and two fractional digits; a JavaScript number is its value in     *)
(* hundredths (an integer: doubles are exact to well below half a cent in  *)
(* the range of the column).                                               *)
(***************************************************************************)
EXTENDS Integers, Sequences, FiniteSets, TLC

VARIABLES
    bootPc,               \* position in the evaluation of the storage module
    probe,                \* outcome of testConnection(): pending, ok, failed
    storageInstance,      \* module variable `storageInstance`
    storage,              \* exported binding `storage` used by the routes
    accounts,             \* MemStorage.accounts: Map<number, Account>
    transactions,         \* MemStorage.transactions: Map<number, Transaction>
    currentAccountId,     \* MemStorage.currentAccountId
    currentTransactionId, \* MemStorage.currentTransactionId
    last,                 \* the last storage call and what it returned
    dbAccounts,           \* table accounts of the relational store
    dbTransactions,       \* table transactions of the relational store
    dbSerial,             \* next value of the serial transactions.id
    calls,                \* the DatabaseStorage calls in flight, per request
    reflected,            \* per account, the postings its stored balance holds
    clock,                \* the date `new Date()` gives the analytics routes
    resp,                 \* the last response, when an analytics route gave it
    users,                \* MemStorage.users: Map<number, User>
    currentUserId,        \* MemStorage.currentUserId
    categories,           \* MemStorage.categories: Map<number, Category>, by name
    currentCategoryId,    \* MemStorage.currentCategoryId
    session,              \* req.session of the client: its userId, or none
    reply,                \* the last response of a route, and the calls it made
    process,              \* the server process: running or exited
    modal                 \* the operation of the client's transfer modal

vars == <<bootPc, probe, storageInstance, storage, accounts, transactions,
          currentAccountId, currentTransactionId, last,
          dbAccounts, dbTransactions, dbSerial, calls, reflected, clock, resp,
          users, currentUserId, categories, currentCategoryId, session, reply,
          process, modal>>

bootVars == <<bootPc, probe, storageInstance, storage>>
memVars == <<accounts, transactions, currentAccountId, currentTransactionId>>
dbVars == <<dbAccounts, dbTransactions, dbSerial, calls, reflected>>

\* What the steps of each part leave alone.
routeVars == <<clock, resp>>
httpVars == <<users, currentUserId, categories, currentCategoryId, session, reply,
              process, modal>>
bootFrame == <<memVars, last, dbVars, routeVars, httpVars>>
memFrame == <<bootVars, dbVars, routeVars, httpVars>>
dbFrame == <<bootVars, memVars, last, routeVars, httpVars>>
routeFrame == <<bootVars, memVars, last, dbVars, clock, httpVars>>
httpFrame == <<bootVars, dbVars, clock, modal>>
userVars == <<users, currentUserId>>
categoryVars == <<categories, currentCategoryId>>

----------------------------------------------------------------------------
(* Bounds of the model *)

MaxTransactions == 3
MaxEditedTransactions == 2
MaxRequests == 2
MaxMonths == 7
MaxCategories == 8

MaxUsers == 3

MaxStoredTransactions == 4

----------------------------------------------------------------------------
(* Values *)

Null == 0

Dec(n, i, f) == [neg |-> n, int |-> i, frac |-> f]

ParseFloat(s) ==
    IF s.neg THEN 0 - (s.int * 100 + s.frac) ELSE s.int * 100 + s.frac

ToFixed2(x) ==
    LET a == IF x < 0 THEN 0 - x ELSE x
    IN  [neg |-> x < 0, int |-> a \div 100, frac |-> a % 100]

OrNull(v) == IF v = 0 THEN Null ELSE v

\* rows.reduce((sum, t) => sum + parseFloat(t.amount), 0)
RECURSIVE SumAmounts(_)
SumAmounts(rows) ==
    IF rows = {} THEN 0
    ELSE LET r == CHOOSE x \in rows : TRUE
         IN  ParseFloat(r.amount) + SumAmounts(rows \ {r})

MapHas(m, k) == k \in DOMAIN m

MapSet(m, k, v) == [x \in DOMAIN m \cup {k} |-> IF x = k THEN v ELSE m[x]]

MapDelete(m, k) == [x \in DOMAIN m \ {k} |-> m[x]]

EmptyMap == [x \in {} |-> 0]

----------------------------------------------------------------------------
(* MemStorage *)

DefaultAccounts ==
    [id \in {1, 2} |->
        IF id = 1
        THEN [id |-> 1, type |-> "checking", balance |-> Dec(FALSE, 87450, 30),
              userId |-> 1]
        ELSE [id |-> 2, type |-> "savings", balance |-> Dec(FALSE, 25680, 75),
              userId |-> 1]]

TransactionFields == {"type", "amount", "accountId"}

NoRow == [id |-> 0, type |-> "none", amount |-> Dec(FALSE, 0, 0), accountId |-> Null]

NoUndone == [any |-> FALSE, row |-> NoRow, before |-> EmptyMap]

NoCall == [op |-> "none", id |-> 0, found |-> FALSE, row |-> NoRow, fields |-> {},
           before |-> EmptyMap, undone |-> NoUndone]

\* A call on the accounts or the categories: its name, its id and whether
\* the id was stored.
CallOn(op, id, found) == [NoCall EXCEPT !.op = op, !.id = id, !.found = found]

\* What a call records of the call before it: the row a deleteTransaction
\* just removed and the accounts as they were before that delete.
Undone ==
    IF last.op = "deleteTransaction" /\ last.found
    THEN [any |-> TRUE, row |-> last.row, before |-> last.before]
    ELSE NoUndone

\* Faulty variants of the balance arithmetic: the posting that ignores the
\* type, and the reversal that posts a second time.
PostedBalanceIgnoringType(account, transaction) ==
    ToFixed2(ParseFloat(account.balance) + ParseFloat(transaction.amount))

ReversedBalancePostingAgain(account, transaction) ==
    LET currentBalance == ParseFloat(account.balance)
        transactionAmount == ParseFloat(transaction.amount)
        newBalance == IF transaction.type = "income"
                      THEN currentBalance + transactionAmount
                      ELSE currentBalance - transactionAmount
    IN  ToFixed2(newBalance)

\* Faulty variant: the posting is added to a balance that was read before
\* the postings of the other requests were written.
PostedBalanceOnStaleRead(account, transaction) ==
    LET currentBalance == ParseFloat(DefaultAccounts[account.id].balance)
        transactionAmount == ParseFloat(transaction.amount)
        newBalance == IF transaction.type = "income"
                      THEN currentBalance + transactionAmount
                      ELSE currentBalance - transactionAmount
    IN  ToFixed2(newBalance)

PostedBalance(account, transaction) ==
    LET currentBalance == ParseFloat(account.balance)
        transactionAmount == ParseFloat(transaction.amount)
        newBalance == IF transaction.type = "income"
                      THEN currentBalance + transactionAmount
                      ELSE currentBalance - transactionAmount
    IN  ToFixed2(newBalance)

ReversedBalance(account, transaction) ==
    LET currentBalance == ParseFloat(account.balance)
        transactionAmount == ParseFloat(transaction.amount)
        newBalance == IF transaction.type = "income"
                      THEN currentBalance - transactionAmount
                      ELSE currentBalance + transactionAmount
    IN  ToFixed2(newBalance)

\* Faulty variant: a transaction whose account is not found loses its
\* accountId.
MemCreateTransactionDroppingAccount(insertTransaction) ==
    LET id == currentTransactionId
        found == /\ OrNull(insertTransaction.accountId) # Null
                 /\ MapHas(accounts, insertTransaction.accountId)
        transaction == [id |-> id,
                        type |-> insertTransaction.type,
                        amount |-> insertTransaction.amount,
                        accountId |-> IF found THEN insertTransaction.accountId
                                      ELSE Null]
    IN  /\ currentTransactionId' = id + 1
        /\ transactions' = MapSet(transactions, id, transaction)
        /\ accounts' =
              IF found
              THEN [accounts EXCEPT ![transaction.accountId].balance =
                        PostedBalance(accounts[transaction.accountId], transaction)]
              ELSE accounts
        /\ UNCHANGED currentAccountId
        /\ last' = [op |-> "createTransaction", id |-> id, found |-> TRUE,
                    row |-> [transaction EXCEPT
                               !.accountId = OrNull(insertTransaction.accountId)],
                    fields |-> {}, before |-> accounts, undone |-> Undone]

MemCreateTransaction(insertTransaction) ==
    LET id == currentTransactionId
        transaction == [f \in DOMAIN insertTransaction \cup {"id"} |->
                          IF f = "id" THEN id
                          ELSE IF f = "accountId"
                               THEN OrNull(insertTransaction.accountId)
                               ELSE insertTransaction[f]]
    IN  /\ currentTransactionId' = id + 1
        /\ transactions' = MapSet(transactions, id, transaction)
        /\ accounts' =
              IF /\ transaction.accountId # Null
                 /\ MapHas(accounts, transaction.accountId)
              THEN [accounts EXCEPT ![transaction.accountId].balance =
                        PostedBalance(accounts[transaction.accountId], transaction)]
              ELSE accounts
        /\ UNCHANGED currentAccountId
        /\ last' = [op |-> "createTransaction", id |-> id, found |-> TRUE,
                    row |-> transaction, fields |-> {}, before |-> accounts,
                    undone |-> Undone]

\* Faulty variant: the patch also moves the posting, reversing the old row
\* on its account and posting the new one.
MemUpdateTransactionReposting(id, updates) ==
    /\ IF ~MapHas(transactions, id)
       THEN UNCHANGED <<transactions, accounts>>
       ELSE LET old == transactions[id]
                new == [f \in DOMAIN old |->
                          IF f \in updates.fields THEN updates.values[f]
                          ELSE old[f]]
                reversed ==
                    IF old.accountId # Null /\ MapHas(accounts, old.accountId)
                    THEN [accounts EXCEPT ![old.accountId].balance =
                            ReversedBalance(accounts[old.accountId], old)]
                    ELSE accounts
            IN  /\ transactions' = MapSet(transactions, id, new)
                /\ accounts' =
                      IF new.accountId # Null /\ MapHas(reversed, new.accountId)
                      THEN [reversed EXCEPT ![new.accountId].balance =
                              PostedBalance(reversed[new.accountId], new)]
                      ELSE reversed
    /\ UNCHANGED <<currentAccountId, currentTransactionId>>
    /\ last' = [op |-> "updateTransaction", id |-> id,
                found |-> MapHas(transactions, id),
                row |-> IF MapHas(transactions, id) THEN transactions[id] ELSE NoRow,
                fields |-> updates.fields, before |-> accounts, undone |-> NoUndone]

MemUpdateTransaction(id, updates) ==
    /\ IF ~MapHas(transactions, id)
       THEN UNCHANGED transactions
       ELSE transactions' =
              MapSet(transactions, id,
                     [f \in DOMAIN transactions[id] |->
                        IF f \in updates.fields THEN updates.values[f]
                        ELSE transactions[id][f]])
    /\ UNCHANGED <<accounts, currentAccountId, currentTransactionId>>
    /\ last' = [op |-> "updateTransaction", id |-> id,
                found |-> MapHas(transactions, id),
                row |-> IF MapHas(transactions, id) THEN transactions[id] ELSE NoRow,
                fields |-> updates.fields, before |-> accounts, undone |-> NoUndone]

\* Faulty variant: the posting is reversed but the row stays in the map.
MemDeleteTransactionKeepingRow(id) ==
    /\ IF ~MapHas(transactions, id)
       THEN UNCHANGED accounts
       ELSE LET transaction == transactions[id]
            IN  accounts' =
                   IF /\ transaction.accountId # Null
                      /\ MapHas(accounts, transaction.accountId)
                   THEN [accounts EXCEPT ![transaction.accountId].balance =
                            ReversedBalance(accounts[transaction.accountId],
                                            transaction)]
                   ELSE accounts
    /\ UNCHANGED <<transactions, currentAccountId, currentTransactionId>>
    /\ last' = [op |-> "deleteTransaction", id |-> id,
                found |-> MapHas(transactions, id),
                row |-> IF MapHas(transactions, id) THEN transactions[id] ELSE NoRow,
                fields |-> {}, before |-> accounts, undone |-> NoUndone]

MemDeleteTransaction(id) ==
    /\ IF ~MapHas(transactions, id)
       THEN UNCHANGED <<transactions, accounts>>
       ELSE LET transaction == transactions[id]
            IN  /\ accounts' =
                      IF /\ transaction.accountId # Null
                         /\ MapHas(accounts, transaction.accountId)
                      THEN [accounts EXCEPT ![transaction.accountId].balance =
                               ReversedBalance(accounts[transaction.accountId],
                                               transaction)]
                      ELSE accounts
                /\ transactions' = MapDelete(transactions, id)
    /\ UNCHANGED <<currentAccountId, currentTransactionId>>
    /\ last' = [op |-> "deleteTransaction", id |-> id,
                found |-> MapHas(transactions, id),
                row |-> IF MapHas(transactions, id) THEN transactions[id] ELSE NoRow,
                fields |-> {}, before |-> accounts, undone |-> NoUndone]

----------------------------------------------------------------------------
(* The relational store before any call *)

NoAccount == [id |-> 0, type |-> "none", balance |-> Dec(FALSE, 0, 0), userId |-> Null]

Requests == 1..MaxRequests

IdleCall == [pc |-> "idle", input |-> NoRow, transaction |-> NoRow,
             account |-> NoAccount, seen |-> {}, result |-> "none"]

DbIdle ==
    /\ dbAccounts = DefaultAccounts
    /\ dbTransactions = EmptyMap
    /\ dbSerial = 1
    /\ calls = [r \in Requests |-> IdleCall]
    /\ reflected = [a \in DOMAIN DefaultAccounts |-> {}]

----------------------------------------------------------------------------
(* Users, categories and the session before any request *)

\* The user that initializeDefaults() creates.
DefaultUsers ==
    [id \in {1} |-> [id |-> 1, username |-> "admin", email |-> "admin@empresa.com",
                     password |-> "demo123", role |-> "admin"]]

\* The names of the categories that initializeDefaults() creates, by id.
DefaultCategories ==
    [id \in 1..7 |->
        <<"Suministros", "Transporte", "Servicios", "Marketing", "Alimentación",
          "Ventas", "Consultoría">>[id]]

NoSession == [userId |-> Null]

\* A request body as parsed JSON: the fields it has and their values.
NoBody == [fields |-> {}, values |-> EmptyMap]

\* What a request carries that the properties speak about: the credentials
\* of a login or registration, the :id of the path, the body.
NoRequest ==
    [username |-> "", password |-> "", email |-> "", id |-> Null, body |-> NoBody]

Credentials(username, password) ==
    [NoRequest EXCEPT !.username = username, !.password = password]

Registration(username, email, password) ==
    [NoRequest EXCEPT !.username = username, !.email = email,
                      !.password = password]

RequestOf(id, body) == [NoRequest EXCEPT !.id = id, !.body = body]

NoReply ==
    [route |-> "none", status |-> 0, message |-> "", calls |-> 0,
     request |-> NoRequest]

\* The transfer modal before it is submitted.
NoOperation ==
    [pc |-> "open", operationType |-> "none", fromAccountId |-> Null,
     toAccountId |-> Null, amount |-> Dec(FALSE, 0, 0), loanBalance |-> 0,
     before |-> 0, first |-> "unsent", second |-> "unsent", result |-> "none"]

HttpIdle ==
    /\ users = DefaultUsers
    /\ currentUserId = 2
    /\ categories = DefaultCategories
    /\ currentCategoryId = 8
    /\ session = NoSession
    /\ reply = NoReply
    /\ process = "running"
    /\ modal = NoOperation

----------------------------------------------------------------------------
(* The analytics routes before any request *)

NoResponse == [route |-> "none", userId |-> Null, body |-> <<>>]

Today == [year |-> 2025, month |-> 0, day |-> 20, hour |-> 9]

RoutesIdle ==
    /\ clock = Today
    /\ resp = NoResponse

----------------------------------------------------------------------------
(* Evaluation of the storage module: lines 1328-1350 *)

CallInitializeStorage ==
    /\ bootPc = "load"
    /\ bootPc' = "awaiting"
    /\ UNCHANGED <<probe, storageInstance, storage, bootFrame>>

ExportStorage ==
    /\ bootPc = "awaiting"
    /\ storage' = storageInstance
    /\ bootPc' = "exported"
    /\ UNCHANGED <<probe, storageInstance, bootFrame>>

TestConnectionResolves(isConnected) ==
    /\ bootPc = "exported"
    /\ probe = "pending"
    /\ probe' = IF isConnected THEN "ok" ELSE "failed"
    /\ storageInstance' = IF isConnected THEN "DatabaseStorage@1336" ELSE "MemStorage@1343"
    /\ UNCHANGED <<bootPc, storage, bootFrame>>

----------------------------------------------------------------------------
(* Calls the route handlers make on `storage` *)

Types == {"income", "expense"}
Amounts == {Dec(FALSE, 30, 0), Dec(FALSE, 20, 0)}
InputAccountIds == {Null, 1, 3}

InsertTransactions == [type : Types, amount : Amounts, accountId : InputAccountIds]

TransactionIds == 1..MaxTransactions

Serving == bootPc = "exported" /\ storage = "MemStorage@1329"

CreateTransaction ==
    /\ Serving
    /\ currentTransactionId <= MaxTransactions
    /\ \E insertTransaction \in InsertTransactions :
          MemCreateTransaction(insertTransaction)
    /\ UNCHANGED memFrame

DeleteTransaction ==
    /\ Serving
    /\ \E id \in TransactionIds : MemDeleteTransaction(id)
    /\ UNCHANGED memFrame

----------------------------------------------------------------------------
(* Specification of the postings: the module has been loaded, the probe   *)
(* has failed, and the in-memory store that the routes hold serves        *)
(* createTransaction and deleteTransaction calls.                         *)

Init ==
    /\ bootPc = "exported"
    /\ probe = "failed"
    /\ storageInstance = "MemStorage@1343"
    /\ storage = "MemStorage@1329"
    /\ accounts = DefaultAccounts
    /\ transactions = EmptyMap
    /\ currentAccountId = 3
    /\ currentTransactionId = 1
    /\ last = NoCall
    /\ DbIdle
    /\ RoutesIdle
    /\ HttpIdle

Next ==
    \/ CreateTransaction
    \/ DeleteTransaction

Spec == Init /\ [][Next]_vars

----------------------------------------------------------------------------
(* Specification of the module load: the storage module is evaluated, the *)
(* probe resolves, and the route handlers post on the exported `storage`. *)

InitBoot ==
    /\ bootPc = "load"
    /\ probe = "pending"
    /\ storageInstance = "MemStorage@1329"
    /\ storage = "unset"
    /\ accounts = DefaultAccounts
    /\ transactions = EmptyMap
    /\ currentAccountId = 3
    /\ currentTransactionId = 1
    /\ last = NoCall
    /\ DbIdle
    /\ RoutesIdle
    /\ HttpIdle

NextBoot ==
    \/ CallInitializeStorage
    \/ ExportStorage
    \/ \E isConnected \in BOOLEAN : TestConnectionResolves(isConnected)
    \/ CreateTransaction
    \/ DeleteTransaction

SpecBoot == InitBoot /\ [][NextBoot]_vars

----------------------------------------------------------------------------
(* Specification of the process: the module load and the postings, while  *)
(* the pool of db.ts holds the client that the probe released.            *)

\* pool.on('error', ...): an idle client of the pool loses its connection.
PoolEmitsError ==
    /\ process = "running"
    /\ probe = "ok"
    /\ process' = "exited"
    /\ UNCHANGED <<bootVars, memVars, last, dbVars, routeVars, users,
                   currentUserId, categories, currentCategoryId, session, reply,
                   modal>>

NextProcess ==
    \/ process = "running" /\ NextBoot
    \/ PoolEmitsError

SpecProcess == InitBoot /\ [][NextProcess]_vars

----------------------------------------------------------------------------
(* Specification of the edits: transactions are created, patched and      *)
(* deleted.                                                                *)

EditInsertTransactions ==
    [type : {"expense"}, amount : {Dec(FALSE, 30, 0)}, accountId : {1}]

UpdateValues == [type |-> "income", amount |-> Dec(FALSE, 50, 0), accountId |-> 2]

TransactionUpdates ==
    [fields : SUBSET TransactionFields, values : {UpdateValues}]

EditCreateTransaction ==
    /\ Serving
    /\ currentTransactionId <= MaxEditedTransactions
    /\ \E insertTransaction \in EditInsertTransactions :
          MemCreateTransaction(insertTransaction)
    /\ UNCHANGED memFrame

UpdateTransaction ==
    /\ Serving
    /\ \E id \in 1..MaxEditedTransactions, updates \in TransactionUpdates :
          MemUpdateTransaction(id, updates)
    /\ UNCHANGED memFrame

NextEdit ==
    \/ EditCreateTransaction
    \/ UpdateTransaction
    \/ DeleteTransaction

SpecEdit == Init /\ [][NextEdit]_vars

----------------------------------------------------------------------------
(* DatabaseStorage.  Every `await` of a query is a point where the calls   *)
(* of other requests run; a query itself is one step of the database.      *)

\* transactions.account_id references accounts.id
ForeignKeyHolds(insertTransaction) ==
    \/ insertTransaction.accountId = Null
    \/ MapHas(dbAccounts, insertTransaction.accountId)

\* Faulty variant: the new balance is the balance now stored plus the delta,
\* not the balance the call read earlier plus the delta.
DbPostedBalanceFromStoredRow(call) ==
    PostedBalance(dbAccounts[call.transaction.accountId], call.transaction)

DbPostedBalance(call) == PostedBalance(call.account, call.transaction)

\* createTransaction is called: nothing has been awaited yet.
DbCreateTransactionCalled(r, insertTransaction) ==
    /\ calls[r].pc = "idle"
    /\ calls' = [calls EXCEPT ![r] = [IdleCall EXCEPT !.pc = "insert",
                    !.input = [id |-> 0, type |-> insertTransaction.type,
                               amount |-> insertTransaction.amount,
                               accountId |-> insertTransaction.accountId]]]
    /\ UNCHANGED <<dbAccounts, dbTransactions, dbSerial, reflected>>

\* db.insert(transactions).values(insertTransaction).returning()
DbInsertTransaction(r) ==
    /\ calls[r].pc = "insert"
    /\ IF ForeignKeyHolds(calls[r].input)
       THEN LET transaction == [calls[r].input EXCEPT !.id = dbSerial]
            IN  /\ dbTransactions' = MapSet(dbTransactions, dbSerial, transaction)
                /\ calls' = [calls EXCEPT ![r].transaction = transaction,
                               ![r].pc = IF transaction.accountId # Null
                                         THEN "getAccount" ELSE "returned"]
       ELSE /\ calls' = [calls EXCEPT ![r].pc = "thrown"]
            /\ UNCHANGED dbTransactions
    /\ dbSerial' = dbSerial + 1
    /\ UNCHANGED <<dbAccounts, reflected>>

\* this.getAccountById(transaction.accountId)
DbGetAccount(r) ==
    /\ calls[r].pc = "getAccount"
    /\ LET id == calls[r].transaction.accountId
       IN  IF MapHas(dbAccounts, id)
           THEN calls' = [calls EXCEPT ![r].account = dbAccounts[id],
                            ![r].seen = reflected[id],
                            ![r].pc = "updateAccount"]
           ELSE calls' = [calls EXCEPT ![r].pc = "returned"]
    /\ UNCHANGED <<dbAccounts, dbTransactions, dbSerial, reflected>>

\* this.updateAccount(transaction.accountId, { balance })
DbUpdateAccount(r) ==
    /\ calls[r].pc = "updateAccount"
    /\ LET id == calls[r].transaction.accountId
       IN  /\ dbAccounts' =
                 IF MapHas(dbAccounts, id)
                 THEN [dbAccounts EXCEPT ![id].balance = DbPostedBalance(calls[r])]
                 ELSE dbAccounts
           /\ reflected' = [reflected EXCEPT ![id] =
                               calls[r].seen \cup {calls[r].transaction.id}]
    /\ calls' = [calls EXCEPT ![r].pc = "returned"]
    /\ UNCHANGED <<dbTransactions, dbSerial>>

DbInsertTransactions == [type : Types, amount : Amounts, accountId : InputAccountIds]

DbCreateTransactionStarts ==
    /\ \E r \in Requests, insertTransaction \in DbInsertTransactions :
          DbCreateTransactionCalled(r, insertTransaction)
    /\ UNCHANGED dbFrame

DbInserts == (\E r \in Requests : DbInsertTransaction(r)) /\ UNCHANGED dbFrame

DbReadsAccount == (\E r \in Requests : DbGetAccount(r)) /\ UNCHANGED dbFrame

DbWritesAccount == (\E r \in Requests : DbUpdateAccount(r)) /\ UNCHANGED dbFrame

NextDb ==
    \/ DbCreateTransactionStarts
    \/ DbInserts
    \/ DbReadsAccount
    \/ DbWritesAccount

SpecDb == Init /\ [][NextDb]_vars

----------------------------------------------------------------------------
(* Dates.  A Date is [year, month (0..11), day, hour]; the server's time   *)
(* zone is UTC.                                                            *)

DaysInMonth(y, m) ==
    IF m = 1
    THEN (IF (y % 4 = 0 /\ y % 100 # 0) \/ y % 400 = 0 THEN 29 ELSE 28)
    ELSE IF m \in {3, 5, 8, 10} THEN 30 ELSE 31

\* new Date(year, month, day): a month outside 0..11 and the day 0 carry over
NewDate(y, m, d) ==
    IF d = 0
    THEN LET py == y + ((m - 1) \div 12)
             pm == (m - 1) % 12
         IN  [year |-> py, month |-> pm, day |-> DaysInMonth(py, pm), hour |-> 0]
    ELSE [year |-> y + (m \div 12), month |-> m % 12, day |-> d, hour |-> 0]

\* date.getTime(), up to a monotone change of scale
GetTime(date) == ((date.year * 12 + date.month) * 32 + date.day) * 24 + date.hour

\* new Date(validatedData.transactionDate + 'T12:00:00.000Z')
AtNoon(date) == [date EXCEPT !.hour = 12]

\* The Date that POST /api/transactions stores for a day.
Day(y, m, d) == AtNoon([year |-> y, month |-> m, day |-> d, hour |-> 0])

----------------------------------------------------------------------------
(* Analytics routes: routes.ts 454-566 *)

TrendMonths == 6

NoText == ""
Transferencia == "Transferencia"
PagoDePrestamo == "Pago de préstamo"

\* description?.includes(marker): a description is the sequence of its parts
Includes(description, marker) == \E i \in 1..Len(description) : description[i] = marker

\* Faulty variant: the rows of every user.
GetTransactionsOfAnyUser(table, userId) == {table[i] : i \in DOMAIN table}

GetTransactionsByUserId(table, userId) ==
    {table[i] : i \in {j \in DOMAIN table : table[j].userId = userId}}

GetAccountsByUserId(table, userId) ==
    {table[i] : i \in {j \in DOMAIN table : table[j].userId = userId}}

CountedAs(t, type) ==
    /\ t.type = type
    /\ t.thirdParty # Transferencia
    /\ ~Includes(t.description, PagoDePrestamo)

InRange(rows, start, end) ==
    {t \in rows : /\ GetTime(t.transactionDate) >= GetTime(start)
                  /\ GetTime(t.transactionDate) <= GetTime(end)}

Zero == [num |-> 0, den |-> 1]

\* ((current - previous) / previous) * 100, as the fraction num / den
\* Faulty variant: the guard lets a previous total of 0 through.
ChangePercentUnguarded(current, previous) ==
    IF previous >= 0
    THEN [num |-> (current - previous) * 100, den |-> previous]
    ELSE Zero

ChangePercent(current, previous) ==
    IF previous > 0
    THEN [num |-> (current - previous) * 100, den |-> previous]
    ELSE Zero

RECURSIVE SumBalances(_)
SumBalances(accts) ==
    IF accts = {} THEN 0
    ELSE LET a == CHOOSE x \in accts : TRUE
         IN  ParseFloat(a.balance) + SumBalances(accts \ {a})

\* Faulty variant: a negative balance is added as it is.
RECURSIVE SumPendingUnclamped(_)
SumPendingUnclamped(accts) ==
    IF accts = {} THEN 0
    ELSE LET a == CHOOSE x \in accts : TRUE
         IN  ParseFloat(a.balance) + SumPendingUnclamped(accts \ {a})

RECURSIVE SumPending(_)
SumPending(accts) ==
    IF accts = {} THEN 0
    ELSE LET a == CHOOSE x \in accts : TRUE
             b == ParseFloat(a.balance)
         IN  (IF b > 0 THEN b ELSE 0) + SumPending(accts \ {a})

Summary(rows, accts, today) ==
    LET monthStart == NewDate(today.year, today.month, 1)
        monthEnd == NewDate(today.year, today.month + 1, 0)
        monthlyTransactions == InRange(rows, monthStart, monthEnd)
        monthlyIncome ==
            SumAmounts({t \in monthlyTransactions : CountedAs(t, "income")})
        monthlyExpenses ==
            SumAmounts({t \in monthlyTransactions : CountedAs(t, "expense")})
        prevMonthStart == NewDate(today.year, today.month - 1, 1)
        prevMonthEnd == NewDate(today.year, today.month, 0)
        prevMonthTransactions == InRange(rows, prevMonthStart, prevMonthEnd)
        prevMonthIncome ==
            SumAmounts({t \in prevMonthTransactions : CountedAs(t, "income")})
        prevMonthExpenses ==
            SumAmounts({t \in prevMonthTransactions : CountedAs(t, "expense")})
    IN  [totalBalance |-> SumBalances(accts),
         monthlyIncome |-> monthlyIncome,
         monthlyExpenses |-> monthlyExpenses,
         pendingLoans |->
            SumPending({a \in accts : a.type = "loan" \/ a.type = "credit"}),
         netCashFlow |-> monthlyIncome - monthlyExpenses,
         incomeChangePercent |-> ChangePercent(monthlyIncome, prevMonthIncome),
         expenseChangePercent |-> ChangePercent(monthlyExpenses, prevMonthExpenses),
         prevMonthIncome |-> prevMonthIncome,
         prevMonthExpenses |-> prevMonthExpenses]

SinCategoria == "Sin categoría"

\* category?.name || "Sin categoría"
CategoryName(allCategories, t) ==
    IF /\ t.categoryId # Null
       /\ MapHas(allCategories, t.categoryId)
       /\ allCategories[t.categoryId] # ""
    THEN allCategories[t.categoryId]
    ELSE SinCategoria

\* (acc[categoryName] || 0) + parseFloat(transaction.amount)
Accumulated(acc, categoryName, transaction) ==
    (IF MapHas(acc, categoryName) THEN acc[categoryName] ELSE 0)
    + ParseFloat(transaction.amount)

\* expenses.reduce((acc, transaction) => ..., {})
RECURSIVE ReduceByCategory(_, _, _)
ReduceByCategory(expenses, allCategories, acc) ==
    IF expenses = {} THEN acc
    ELSE LET transaction == CHOOSE t \in expenses : TRUE
             categoryName == CategoryName(allCategories, transaction)
         IN  ReduceByCategory(expenses \ {transaction}, allCategories,
                MapSet(acc, categoryName,
                       Accumulated(acc, categoryName, transaction)))

ExpensesByCategory(rows, allCategories) ==
    ReduceByCategory({t \in rows : CountedAs(t, "expense")}, allCategories, EmptyMap)

Digits(n) == IF n < 10 THEN <<n>> ELSE <<n \div 10, n % 10>>

PadStart2(digits) == IF Len(digits) < 2 THEN <<0>> \o digits ELSE digits

\* `${date.getFullYear()}-${String(date.getMonth() + 1).padStart(2, '0')}`:
\* the year followed by the digits of the month
MonthKey(date) == <<date.year>> \o PadStart2(Digits(date.month + 1))

\* the order of strings that Array.prototype.sort() uses
RECURSIVE LexLess(_, _)
LexLess(a, b) ==
    IF a = <<>> THEN b # <<>>
    ELSE IF b = <<>> THEN FALSE
    ELSE IF Head(a) # Head(b) THEN Head(a) < Head(b)
    ELSE LexLess(Tail(a), Tail(b))

RECURSIVE Sort(_)
Sort(keys) ==
    IF keys = {} THEN <<>>
    ELSE LET least == CHOOSE k \in keys : \A other \in keys \ {k} : LexLess(k, other)
         IN  <<least>> \o Sort(keys \ {least})

\* sortedMonths.slice(-6)
\* Faulty variant: the first six months are kept.
LastMonthsFromStart(sortedMonths) ==
    SubSeq(sortedMonths, 1,
           IF Len(sortedMonths) > TrendMonths THEN TrendMonths ELSE Len(sortedMonths))

LastMonths(sortedMonths) ==
    SubSeq(sortedMonths,
           IF Len(sortedMonths) > TrendMonths THEN Len(sortedMonths) - TrendMonths + 1
           ELSE 1,
           Len(sortedMonths))

MonthlyTrends(rows) ==
    LET keys == {MonthKey(t.transactionDate) : t \in rows}
        monthlyData ==
            [k \in keys |->
                [income |-> SumAmounts({t \in rows :
                                /\ MonthKey(t.transactionDate) = k
                                /\ CountedAs(t, "income")}),
                 expenses |-> SumAmounts({t \in rows :
                                /\ MonthKey(t.transactionDate) = k
                                /\ CountedAs(t, "expense")})]]
        last6Months == LastMonths(Sort(keys))
    IN  [i \in 1..Len(last6Months) |->
            [month |-> last6Months[i],
             income |-> monthlyData[last6Months[i]].income,
             expenses |-> monthlyData[last6Months[i]].expenses,
             net |-> monthlyData[last6Months[i]].income
                     - monthlyData[last6Months[i]].expenses]]

Users == {1, 2}

GetSummary ==
    /\ \E userId \in Users :
          resp' = [route |-> "summary", userId |-> userId,
                   body |-> Summary(GetTransactionsByUserId(transactions, userId),
                                    GetAccountsByUserId(accounts, userId), clock)]
    /\ UNCHANGED routeFrame

GetExpensesByCategory ==
    /\ \E userId \in Users :
          resp' = [route |-> "expenses-by-category", userId |-> userId,
                   body |-> ExpensesByCategory(
                                GetTransactionsByUserId(transactions, userId),
                                categories)]
    /\ UNCHANGED routeFrame

GetMonthlyTrends ==
    /\ \E userId \in Users :
          resp' = [route |-> "monthly-trends", userId |-> userId,
                   body |-> MonthlyTrends(
                                GetTransactionsByUserId(transactions, userId))]
    /\ UNCHANGED routeFrame

----------------------------------------------------------------------------
(* Specification of the analytics: the store holds a ledger of up to      *)
(* MaxMonths months ending in the current one, and the routes are read.   *)

\* What a month of the ledger holds: nothing, ordinary rows of two users
\* next to a loan payment, or one transfer for each user and nothing else.
MonthKinds == 0..2

LedgerDate(monthsAgo) == AtNoon(NewDate(Today.year, Today.month - monthsAgo, 15))

Template(type, cents, categoryId, thirdParty, description, userId) ==
    [type |-> type, amount |-> ToFixed2(cents), accountId |-> 1,
     categoryId |-> categoryId, thirdParty |-> thirdParty,
     description |-> description, userId |-> userId]

Templates(kind, i) ==
    IF kind = 1
    THEN <<Template("income", (i + 2) * 1000, 6, "Cliente", <<"venta">>, 1),
           Template("expense", 2000 + i * 100, (i % 2), "Proveedor", <<"compra">>, 1),
           Template("expense", 4500, Null, "Banco", <<PagoDePrestamo, ": ", "Auto">>, 1),
           Template("income", 9000, 9, NoText, <<"venta">>, 2)>>
    ELSE IF kind = 2
    THEN <<Template("expense", 2000, 2, Transferencia,
                    <<"Transferencia a ", "Ahorros">>, 1),
           Template("income", 3000, Null, Transferencia,
                    <<"Transferencia desde ", "Ahorros">>, 2)>>
    ELSE <<>>

\* The ledger as the store holds it: month 1 is the oldest and month
\* MaxMonths the current one; the rows of month i have the ids 4i-3 .. 4i.
Ledger(kinds) ==
    LET ids == {id \in 1..(4 * MaxMonths) :
                  LET i == ((id - 1) \div 4) + 1
                  IN  ((id - 1) % 4) + 1 <= Len(Templates(kinds[i], i))}
    IN  [id \in ids |->
            LET i == ((id - 1) \div 4) + 1
                t == Templates(kinds[i], i)[((id - 1) % 4) + 1]
            IN  [id |-> id, type |-> t.type, amount |-> t.amount,
                 accountId |-> t.accountId, categoryId |-> t.categoryId,
                 thirdParty |-> t.thirdParty, description |-> t.description,
                 userId |-> t.userId,
                 transactionDate |-> LedgerDate(MaxMonths - i)]]

InitAnalytics ==
    /\ bootPc = "exported"
    /\ probe = "failed"
    /\ storageInstance = "MemStorage@1343"
    /\ storage = "MemStorage@1329"
    /\ accounts = DefaultAccounts
    /\ \E kinds \in [1..MaxMonths -> MonthKinds] : transactions = Ledger(kinds)
    /\ currentAccountId = 3
    /\ currentTransactionId = 4 * MaxMonths + 1
    /\ last = NoCall
    /\ DbIdle
    /\ RoutesIdle
    /\ HttpIdle

NextAnalytics ==
    \/ GetSummary
    \/ GetExpensesByCategory
    \/ GetMonthlyTrends

SpecAnalytics == InitAnalytics /\ [][NextAnalytics]_vars

----------------------------------------------------------------------------
(* requireAuth and the category routes: routes.ts 85-92, 198-239 *)

\* Faulty variant: requireAuth lets every request through.
AuthenticatedAlways == TRUE

Authenticated == session.userId # Null

AnswerTo(request, route, status, message, storageCalls) ==
    /\ reply' = [route |-> route, status |-> status, message |-> message,
                 calls |-> storageCalls, request |-> request]
    /\ resp' = NoResponse

Answer(route, status, message, storageCalls) ==
    AnswerTo(NoRequest, route, status, message, storageCalls)

\* return res.status(401).json({ message: "Authentication required" })
Unauthorized(route) == Answer(route, 401, "Authentication required", 0)

MemCreateCategory(insertCategory) ==
    /\ categories' = MapSet(categories, currentCategoryId, insertCategory.name)
    /\ currentCategoryId' = currentCategoryId + 1
    /\ last' = CallOn("createCategory", currentCategoryId, TRUE)

MemUpdateCategory(id, updates) ==
    /\ categories' = IF MapHas(categories, id)
                     THEN MapSet(categories, id, updates.name)
                     ELSE categories
    /\ UNCHANGED currentCategoryId
    /\ last' = CallOn("updateCategory", id, MapHas(categories, id))

MemDeleteCategory(id) ==
    /\ categories' = MapDelete(categories, id)
    /\ UNCHANGED currentCategoryId
    /\ last' = CallOn("deleteCategory", id, MapHas(categories, id))

\* Names a client gives a category: one that a default category has, and
\* the empty string, which insertCategorySchema accepts.
CategoryNames == {"Suministros", ""}

CategoryIds == {1, 8}

PostCategory ==
    /\ currentCategoryId <= MaxCategories
    /\ \E name \in CategoryNames :
          IF ~Authenticated
          THEN Unauthorized("POST /api/categories") /\ UNCHANGED <<categoryVars, last>>
          ELSE /\ MemCreateCategory([name |-> name])
               /\ Answer("POST /api/categories", 201, "", 1)
    /\ UNCHANGED <<httpFrame, memVars, userVars, session, process>>

PutCategory ==
    /\ \E id \in CategoryIds, name \in CategoryNames :
          IF ~Authenticated
          THEN Unauthorized("PUT /api/categories/:id") /\ UNCHANGED <<categoryVars, last>>
          ELSE /\ MemUpdateCategory(id, [name |-> name])
               /\ IF MapHas(categories, id)
                  THEN AnswerTo(RequestOf(id, NoBody),
                                "PUT /api/categories/:id", 200, "", 1)
                  ELSE AnswerTo(RequestOf(id, NoBody),
                                "PUT /api/categories/:id", 404,
                                "Category not found", 1)
    /\ UNCHANGED <<httpFrame, memVars, userVars, session, process>>

DeleteCategory ==
    /\ \E id \in CategoryIds :
          IF ~Authenticated
          THEN Unauthorized("DELETE /api/categories/:id") /\ UNCHANGED <<categoryVars, last>>
          ELSE /\ MemDeleteCategory(id)
               /\ IF MapHas(categories, id)
                  THEN AnswerTo(RequestOf(id, NoBody),
                                "DELETE /api/categories/:id", 200,
                                "Category deleted successfully", 1)
                  ELSE AnswerTo(RequestOf(id, NoBody),
                                "DELETE /api/categories/:id", 404,
                                "Category not found", 1)
    /\ UNCHANGED <<httpFrame, memVars, userVars, session, process>>

----------------------------------------------------------------------------
(* The authentication routes: routes.ts 95-196 *)

\* What a lookup gives when no user matches (undefined).
NoUser == [id |-> Null, username |-> "", email |-> "", password |-> "", role |-> ""]

\* The route goes on to a successful login.
NoRejection == [status |-> 0, message |-> ""]

GetUser(id) == IF MapHas(users, id) THEN users[id] ELSE NoUser

\* Array.from(this.users.values()).find(user => user.username === username)
GetUserByUsername(username) ==
    IF \E id \in DOMAIN users : users[id].username = username
    THEN users[CHOOSE id \in DOMAIN users :
                  /\ users[id].username = username
                  /\ \A other \in DOMAIN users :
                        users[other].username = username => id <= other]
    ELSE NoUser

\* Faulty variant: a lookup by email that finds nobody.
GetUserByEmailFindingNobody(email) == NoUser

GetUserByEmail(email) ==
    IF \E id \in DOMAIN users : users[id].email = email
    THEN users[CHOOSE id \in DOMAIN users :
                  /\ users[id].email = email
                  /\ \A other \in DOMAIN users :
                        users[other].email = email => id <= other]
    ELSE NoUser

\* Faulty variant: a createUser that ignores the role it is given.
MemCreateUserAsAdmin(insertUser) ==
    /\ users' = MapSet(users, currentUserId,
                       [id |-> currentUserId, username |-> insertUser.username,
                        email |-> insertUser.email, password |-> insertUser.password,
                        role |-> "admin"])
    /\ currentUserId' = currentUserId + 1

\* role: insertUser.role || "employee"
MemCreateUser(insertUser) ==
    /\ users' = MapSet(users, currentUserId,
                       [id |-> currentUserId, username |-> insertUser.username,
                        email |-> insertUser.email, password |-> insertUser.password,
                        role |-> IF insertUser.role = "" THEN "employee"
                                 ELSE insertUser.role])
    /\ currentUserId' = currentUserId + 1

\* loginSchema: both strings have at least one character.
LoginSchemaAccepts(body) == body.username # "" /\ body.password # ""

\* Faulty variant: an unknown username is answered as not found.
LoginRejectionNamingUser(user, password) ==
    IF user = NoUser THEN [status |-> 404, message |-> "User not found"]
    ELSE IF user.password # password
         THEN [status |-> 401, message |-> "Invalid credentials"]
         ELSE NoRejection

\* if (!user || user.password !== password) return res.status(401)...
LoginRejection(user, password) ==
    IF user = NoUser \/ user.password # password
    THEN [status |-> 401, message |-> "Invalid credentials"]
    ELSE NoRejection

Usernames == {"admin", "ana", "eva", ""}

Passwords == {"demo123", "clave123", ""}

Emails == {"admin@empresa.com", "ana@empresa.com"}

Login ==
    /\ \E username \in Usernames, password \in Passwords :
          LET body == Credentials(username, password)
              user == GetUserByUsername(username)
              rejection == LoginRejection(user, password)
          IN  IF ~LoginSchemaAccepts(body)
              THEN /\ AnswerTo(body, "POST /api/auth/login", 400,
                               "Invalid request data", 0)
                   /\ UNCHANGED session
              ELSE IF rejection # NoRejection
              THEN /\ AnswerTo(body, "POST /api/auth/login", rejection.status,
                               rejection.message, 1)
                   /\ UNCHANGED session
              ELSE /\ session' = [userId |-> user.id]
                   /\ AnswerTo(body, "POST /api/auth/login", 200, "", 1)
    /\ UNCHANGED <<httpFrame, memVars, last, userVars, categoryVars, process>>

\* req.session.destroy(...)
Logout ==
    /\ session' = NoSession
    /\ Answer("POST /api/auth/logout", 200, "Logged out successfully", 0)
    /\ UNCHANGED <<httpFrame, memVars, last, userVars, categoryVars, process>>

GetMe ==
    /\ IF ~Authenticated
       THEN Unauthorized("GET /api/auth/me")
       ELSE IF GetUser(session.userId) = NoUser
            THEN Answer("GET /api/auth/me", 404, "User not found", 1)
            ELSE Answer("GET /api/auth/me", 200, "", 1)
    /\ UNCHANGED <<httpFrame, memVars, last, userVars, categoryVars, session,
                   process>>

\* registerSchema: username of 3 characters or more, password of 6 or more.
RegisterSchemaAccepts(body) == body.username # "" /\ body.password # ""

Register ==
    /\ currentUserId <= MaxUsers
    /\ \E username \in Usernames, password \in Passwords, email \in Emails :
          LET body == Registration(username, email, password)
          IN  IF ~RegisterSchemaAccepts(body)
              THEN /\ AnswerTo(body, "POST /api/auth/register", 400,
                               "Error de validación", 0)
                   /\ UNCHANGED <<userVars, session>>
              ELSE IF GetUserByUsername(username) # NoUser
              THEN /\ AnswerTo(body, "POST /api/auth/register", 400,
                               "Username already exists", 1)
                   /\ UNCHANGED <<userVars, session>>
              ELSE IF GetUserByEmail(email) # NoUser
              THEN /\ AnswerTo(body, "POST /api/auth/register", 400,
                               "Email already exists", 2)
                   /\ UNCHANGED <<userVars, session>>
              ELSE /\ MemCreateUser([username |-> username, email |-> email,
                                     password |-> password,
                                     role |-> "employee"])
                   /\ session' = [userId |-> currentUserId]
                   /\ AnswerTo(body, "POST /api/auth/register", 201, "", 3)
    /\ UNCHANGED <<httpFrame, memVars, last, categoryVars, process>>

GetCategories ==
    /\ IF ~Authenticated
       THEN Unauthorized("GET /api/categories")
       ELSE Answer("GET /api/categories", 200, "", 1)
    /\ UNCHANGED <<httpFrame, memVars, last, userVars, categoryVars, session,
                   process>>

----------------------------------------------------------------------------
(* Specification of the session: one client logs in, registers, logs out  *)
(* and calls guarded routes, with and without a logged-in session.        *)

NextAuth ==
    \/ Login
    \/ Logout
    \/ Register
    \/ GetMe
    \/ GetCategories
    \/ PostCategory
    \/ PutCategory
    \/ DeleteCategory

SpecAuth == Init /\ [][NextAuth]_vars

----------------------------------------------------------------------------
(* Specification of the categories: a logged-in client creates, renames   *)
(* and deletes categories and reads the expenses by category of a store   *)
(* that holds some of six rows.                                           *)

CategoryRow(id, type, cents, categoryId, thirdParty, userId) ==
    [id |-> id, type |-> type, amount |-> ToFixed2(cents), accountId |-> 1,
     categoryId |-> categoryId, thirdParty |-> thirdParty,
     description |-> <<"compra">>, userId |-> userId,
     transactionDate |-> AtNoon(NewDate(Today.year, Today.month, 15))]

CategoryRows ==
    <<CategoryRow(1, "expense", 2000, 1, "Proveedor", 1),
      CategoryRow(2, "expense", 3000, 8, "Proveedor", 1),
      CategoryRow(3, "expense", 4500, Null, NoText, 1),
      CategoryRow(4, "expense", 1000, 2, Transferencia, 1),
      CategoryRow(5, "income", 5000, 1, "Cliente", 1),
      CategoryRow(6, "expense", 7000, 1, "Proveedor", 2)>>

InitCategories ==
    /\ bootPc = "exported"
    /\ probe = "failed"
    /\ storageInstance = "MemStorage@1343"
    /\ storage = "MemStorage@1329"
    /\ accounts = DefaultAccounts
    /\ \E ids \in SUBSET (1..Len(CategoryRows)) :
          transactions = [id \in ids |-> CategoryRows[id]]
    /\ currentAccountId = 3
    /\ currentTransactionId = Len(CategoryRows) + 1
    /\ last = NoCall
    /\ DbIdle
    /\ RoutesIdle
    /\ users = DefaultUsers
    /\ currentUserId = 2
    /\ categories = DefaultCategories
    /\ currentCategoryId = 8
    /\ session = [userId |-> 1]
    /\ reply = NoReply
    /\ process = "running"
    /\ modal = NoOperation

NextCategories ==
    \/ PostCategory
    \/ PutCategory
    \/ DeleteCategory
    \/ GetExpensesByCategory

SpecCategories == InitCategories /\ [][NextCategories]_vars

----------------------------------------------------------------------------
(* The account and transaction routes: routes.ts 293-451 *)

\* Faulty variant: a patch of an id that is not stored creates the account.
MemUpdateAccountCreating(id, updates) ==
    /\ accounts' =
          MapSet(accounts, id,
                 [f \in DOMAIN NoAccount |->
                    IF f \in updates.fields THEN updates.values[f]
                    ELSE IF MapHas(accounts, id) THEN accounts[id][f]
                    ELSE IF f = "id" THEN id ELSE NoAccount[f]])
    /\ UNCHANGED <<transactions, currentAccountId, currentTransactionId>>
    /\ last' = CallOn("updateAccount", id, MapHas(accounts, id))

\* const updatedAccount = { ...account, ...updates }
MemUpdateAccount(id, updates) ==
    /\ accounts' =
          IF ~MapHas(accounts, id) THEN accounts
          ELSE MapSet(accounts, id,
                      [f \in DOMAIN accounts[id] |->
                         IF f \in updates.fields THEN updates.values[f]
                         ELSE accounts[id][f]])
    /\ UNCHANGED <<transactions, currentAccountId, currentTransactionId>>
    /\ last' = CallOn("updateAccount", id, MapHas(accounts, id))

\* Faulty variant: the transactions of the account are deleted with it.
MemDeleteAccountCascading(id) ==
    /\ accounts' = MapDelete(accounts, id)
    /\ transactions' =
          [t \in {i \in DOMAIN transactions : transactions[i].accountId # id} |->
              transactions[t]]
    /\ UNCHANGED <<currentAccountId, currentTransactionId>>
    /\ last' = CallOn("deleteAccount", id, MapHas(accounts, id))

\* return this.accounts.delete(id)
MemDeleteAccount(id) ==
    /\ accounts' = MapDelete(accounts, id)
    /\ UNCHANGED <<transactions, currentAccountId, currentTransactionId>>
    /\ last' = CallOn("deleteAccount", id, MapHas(accounts, id))

\* JSON values are tagged with their type; a string of digits is a decimal.
Str(v) == [json |-> "string", value |-> v]
Num(v) == [json |-> "number", value |-> v]

\* A date string "YYYY-MM-DD" is the sequence of its three numbers; a
\* string that new Date() cannot parse is the empty sequence.
IsoDate(y, m, d) == <<y, m, d>>
Unparseable == <<>>

\* !isNaN(new Date(val).getTime())
DateParses(val) == Len(val) = 3

\* new Date(val + 'T12:00:00.000Z')
DateAtNoon(val) ==
    AtNoon([year |-> val[1], month |-> val[2] - 1, day |-> val[3], hour |-> 0])

\* Faulty variant: a schema that accepts every type.
CreateTransactionSchemaAnyType(body) ==
    /\ {"type", "amount", "description", "categoryId", "accountId",
        "transactionDate"} \subseteq body.fields
    /\ DateParses(body.values.transactionDate)

\* insertAccountSchema.partial(): every field optional, balance a string,
\* userId a number.
InsertAccountPartialAccepts(body) ==
    /\ "balance" \in body.fields => body.values.balance.json = "string"
    /\ "userId" \in body.fields => body.values.userId.json = "number"

\* updateTransactionSchema: every field optional.
UpdateTransactionSchemaAccepts(body) ==
    /\ "type" \in body.fields => body.values.type \in {"expense", "income"}
    /\ "transactionDate" \in body.fields => DateParses(body.values.transactionDate)

\* createTransactionSchema: type, amount, description, categoryId, accountId
\* and transactionDate are required.
CreateTransactionSchemaAccepts(body) ==
    /\ {"type", "amount", "description", "categoryId", "accountId",
        "transactionDate"} \subseteq body.fields
    /\ body.values.type \in {"expense", "income"}
    /\ DateParses(body.values.transactionDate)

\* The patch that reaches storage.updateAccount.
AccountUpdates(body) ==
    [fields |-> body.fields,
     values |-> [f \in DOMAIN body.values |-> body.values[f].value]]

\* The patch that reaches storage.updateTransaction: the date, when given,
\* is replaced by a Date at noon.
PatchOfBody(body) ==
    [fields |-> body.fields,
     values |-> [f \in DOMAIN body.values |->
                   IF f = "transactionDate" /\ DateParses(body.values[f])
                   THEN DateAtNoon(body.values[f])
                   ELSE body.values[f]]]

AccountBodies ==
    {[fields |-> {"balance"},
      values |-> [balance |-> Str(Dec(FALSE, 0, 0)), userId |-> Num(1)]],
     [fields |-> {"balance"},
      values |-> [balance |-> Num(Dec(FALSE, 0, 0)), userId |-> Num(1)]]}

TransactionValues ==
    [type |-> "expense", amount |-> Dec(FALSE, 5, 0), description |-> <<"pedido">>,
     categoryId |-> 1, accountId |-> 1, transactionDate |-> IsoDate(2025, 1, 10)]

TransactionBodies ==
    {[fields |-> {"description"}, values |-> TransactionValues],
     [fields |-> {"type"}, values |-> [TransactionValues EXCEPT !.type = "transfer"]],
     [fields |-> {"transactionDate"},
      values |-> [TransactionValues EXCEPT !.transactionDate = Unparseable]]}

NewTransactionBodies ==
    {[fields |-> DOMAIN TransactionValues, values |-> TransactionValues],
     [fields |-> DOMAIN TransactionValues \ {"description"},
      values |-> TransactionValues],
     [fields |-> DOMAIN TransactionValues,
      values |-> [TransactionValues EXCEPT !.type = "transfer"]],
     [fields |-> DOMAIN TransactionValues,
      values |-> [TransactionValues EXCEPT !.transactionDate = Unparseable]],
     [fields |-> DOMAIN TransactionValues,
      values |-> [TransactionValues EXCEPT !.amount = Dec(TRUE, 5, 0)]],
     [fields |-> DOMAIN TransactionValues,
      values |-> [TransactionValues EXCEPT !.amount = Dec(FALSE, 0, 0)]]}

\* The ids of a request path: stored ones and one that is not stored.
PathIds == {1, 3, 9}

PutAccountById ==
    /\ \E id \in PathIds, body \in AccountBodies :
          LET request == RequestOf(id, body)
              route == "PUT /api/accounts/:id"
          IN  IF ~Authenticated
              THEN Unauthorized(route) /\ UNCHANGED <<memVars, last>>
              ELSE IF ~InsertAccountPartialAccepts(body)
              THEN /\ AnswerTo(request, route, 400, "Invalid account data", 0)
                   /\ UNCHANGED <<memVars, last>>
              ELSE /\ MemUpdateAccount(id, AccountUpdates(body))
                   /\ IF MapHas(accounts, id)
                      THEN AnswerTo(request, route, 200, "", 1)
                      ELSE AnswerTo(request, route, 404, "Account not found", 1)
    /\ UNCHANGED <<httpFrame, userVars, categoryVars, session, process>>

DeleteAccountById ==
    /\ \E id \in PathIds :
          LET request == RequestOf(id, NoBody)
              route == "DELETE /api/accounts/:id"
          IN  IF ~Authenticated
              THEN Unauthorized(route) /\ UNCHANGED <<memVars, last>>
              ELSE /\ MemDeleteAccount(id)
                   /\ IF MapHas(accounts, id)
                      THEN AnswerTo(request, route, 200,
                                    "Account deleted successfully", 1)
                      ELSE AnswerTo(request, route, 404, "Account not found", 1)
    /\ UNCHANGED <<httpFrame, userVars, categoryVars, session, process>>

PostTransaction ==
    /\ currentTransactionId <= MaxStoredTransactions
    /\ \E body \in NewTransactionBodies :
          LET request == RequestOf(Null, body)
              route == "POST /api/transactions"
          IN  IF ~Authenticated
              THEN Unauthorized(route) /\ UNCHANGED <<memVars, last>>
              ELSE IF ~CreateTransactionSchemaAccepts(body)
              THEN /\ AnswerTo(request, route, 400,
                               IF /\ "transactionDate" \in body.fields
                                  /\ ~DateParses(body.values.transactionDate)
                               THEN "Invalid transaction data"
                               ELSE "Error de validación", 0)
                   /\ UNCHANGED <<memVars, last>>
              ELSE /\ MemCreateTransaction(
                          [type |-> body.values.type,
                           amount |-> body.values.amount,
                           accountId |-> body.values.accountId,
                           categoryId |-> body.values.categoryId,
                           thirdParty |-> NoText,
                           description |-> body.values.description,
                           userId |-> session.userId,
                           transactionDate |-> DateAtNoon(body.values.transactionDate)])
                   /\ AnswerTo(request, route, 201, "", 1)
    /\ UNCHANGED <<httpFrame, userVars, categoryVars, session, process>>

PutTransactionById ==
    /\ \E id \in PathIds, body \in TransactionBodies :
          LET request == RequestOf(id, body)
              route == "PUT /api/transactions/:id"
          IN  IF ~Authenticated
              THEN Unauthorized(route) /\ UNCHANGED <<memVars, last>>
              ELSE IF ~UpdateTransactionSchemaAccepts(body)
              THEN /\ AnswerTo(request, route, 400,
                               IF "type" \in body.fields
                               THEN "Error de validación"
                               ELSE "Invalid transaction data", 0)
                   /\ UNCHANGED <<memVars, last>>
              ELSE /\ MemUpdateTransaction(id, PatchOfBody(body))
                   /\ IF MapHas(transactions, id)
                      THEN AnswerTo(request, route, 200, "", 1)
                      ELSE AnswerTo(request, route, 404,
                                    "Transaction not found", 1)
    /\ UNCHANGED <<httpFrame, userVars, categoryVars, session, process>>

DeleteTransactionById ==
    /\ \E id \in PathIds :
          LET request == RequestOf(id, NoBody)
              route == "DELETE /api/transactions/:id"
          IN  IF ~Authenticated
              THEN Unauthorized(route) /\ UNCHANGED <<memVars, last>>
              ELSE /\ MemDeleteTransaction(id)
                   /\ IF MapHas(transactions, id)
                      THEN AnswerTo(request, route, 200,
                                    "Transaction deleted successfully", 1)
                      ELSE AnswerTo(request, route, 404,
                                    "Transaction not found", 1)
    /\ UNCHANGED <<httpFrame, userVars, categoryVars, session, process>>

\* MemStorage.getTransactionsByDateRange
GetTransactionsByDateRange(table, startDate, endDate) ==
    {table[i] : i \in {j \in DOMAIN table :
        /\ GetTime(table[j].transactionDate) >= GetTime(startDate)
        /\ GetTime(table[j].transactionDate) <= GetTime(endDate)}}

\* The query of GET /api/transactions: no dates, or startDate=2025-01-01
\* and endDate=2025-01-31.
NoQuery == [given |-> FALSE, startDate |-> NewDate(1970, 0, 1),
            endDate |-> NewDate(1970, 0, 1)]

Queries == {NoQuery,
            [given |-> TRUE, startDate |-> NewDate(2025, 0, 1),
             endDate |-> NewDate(2025, 0, 31)]}

\* { ...t, category: ..., account: ... }: the account is looked up among
\* the accounts of the session's user.
Enriched(t, userId) ==
    [f \in DOMAIN t \cup {"account"} |->
        IF f # "account" THEN t[f]
        ELSE IF /\ t.accountId # Null
                /\ \E a \in GetAccountsByUserId(accounts, userId) : a.id = t.accountId
             THEN t.accountId
             ELSE Null]

GetTransactions ==
    /\ Authenticated
    /\ \E query \in Queries :
          LET rows == IF query.given
                      THEN GetTransactionsByDateRange(transactions, query.startDate,
                                                      query.endDate)
                      ELSE GetTransactionsByUserId(transactions, session.userId)
          IN  resp' = [route |-> "GET /api/transactions", userId |-> session.userId,
                       body |-> {Enriched(t, session.userId) : t \in rows}]
    /\ reply' = [NoReply EXCEPT !.route = "GET /api/transactions", !.status = 200,
                                !.calls = 3]
    /\ UNCHANGED <<httpFrame, memVars, last, userVars, categoryVars, session,
                   process>>

----------------------------------------------------------------------------
(* Specification of the owners: two users each hold an account and rows,  *)
(* user 1 is logged in and reads, patches and deletes by id.              *)

OwnerUsers ==
    MapSet(DefaultUsers, 2,
           [id |-> 2, username |-> "ana", email |-> "ana@empresa.com",
            password |-> "clave123", role |-> "employee"])

OwnerAccounts ==
    MapSet([id \in {1} |-> DefaultAccounts[1]], 3,
           [id |-> 3, type |-> "savings", balance |-> Dec(FALSE, 500, 0),
            userId |-> 2])

OwnerRow(id, type, cents, accountId, userId, date) ==
    [id |-> id, type |-> type, amount |-> ToFixed2(cents), accountId |-> accountId,
     categoryId |-> 1, thirdParty |-> NoText, description |-> <<"compra">>,
     userId |-> userId, transactionDate |-> date]

OwnerRows ==
    [id \in {1, 3} |->
        IF id = 1 THEN OwnerRow(1, "expense", 2000, 1, 1, Day(2025, 0, 15))
        ELSE OwnerRow(3, "income", 3000, 3, 2, Day(2025, 0, 16))]

InitOwner ==
    /\ bootPc = "exported"
    /\ probe = "failed"
    /\ storageInstance = "MemStorage@1343"
    /\ storage = "MemStorage@1329"
    /\ accounts = OwnerAccounts
    /\ \E ids \in SUBSET DOMAIN OwnerRows :
          transactions = [id \in ids |-> OwnerRows[id]]
    /\ currentAccountId = 4
    /\ currentTransactionId = 4
    /\ last = NoCall
    /\ DbIdle
    /\ RoutesIdle
    /\ users = OwnerUsers
    /\ currentUserId = 3
    /\ categories = DefaultCategories
    /\ currentCategoryId = 8
    /\ session = [userId |-> 1]
    /\ reply = NoReply
    /\ process = "running"
    /\ modal = NoOperation

NextOwner ==
    \/ PutAccountById
    \/ DeleteAccountById
    \/ PutTransactionById
    \/ DeleteTransactionById
    \/ PutCategory
    \/ DeleteCategory
    \/ GetTransactions

SpecOwner == InitOwner /\ [][NextOwner]_vars

----------------------------------------------------------------------------
(* Specification of the payloads: the logged-in user posts and patches    *)
(* with bodies that the schemas accept and bodies that they reject.       *)

NextPayload ==
    \/ PostTransaction
    \/ PutTransactionById
    \/ PutAccountById

SpecPayload == InitOwner /\ [][NextPayload]_vars

----------------------------------------------------------------------------
(* Specification of the month boundaries: the store holds some of six     *)
(* rows of user 1 dated on the first and last days of the current and the *)
(* previous month, as POST /api/transactions stores them, and the         *)
(* analytics routes are read by user 1 and by user 2, who has no rows and *)
(* no accounts.                                                           *)

EdgeRow(id, type, cents, date) ==
    [id |-> id, type |-> type, amount |-> ToFixed2(cents), accountId |-> 1,
     categoryId |-> Null, thirdParty |-> NoText, description |-> <<"venta">>,
     userId |-> 1, transactionDate |-> date]

EdgeRows ==
    <<EdgeRow(1, "income", 3000, Day(2025, 0, 1)),
      EdgeRow(2, "income", 5000, Day(2025, 0, 31)),
      EdgeRow(3, "expense", 2000, Day(2025, 0, 31)),
      EdgeRow(4, "income", 7000, Day(2024, 11, 1)),
      EdgeRow(5, "expense", 1000, Day(2024, 11, 31)),
      EdgeRow(6, "income", 9000, Day(2024, 10, 30))>>

InitMonthEdge ==
    /\ bootPc = "exported"
    /\ probe = "failed"
    /\ storageInstance = "MemStorage@1343"
    /\ storage = "MemStorage@1329"
    /\ accounts = DefaultAccounts
    /\ \E ids \in SUBSET (1..Len(EdgeRows)) :
          transactions = [id \in ids |-> EdgeRows[id]]
    /\ currentAccountId = 3
    /\ currentTransactionId = Len(EdgeRows) + 1
    /\ last = NoCall
    /\ DbIdle
    /\ RoutesIdle
    /\ HttpIdle

NextMonthEdge ==
    \/ GetSummary
    \/ GetMonthlyTrends

SpecMonthEdge == InitMonthEdge /\ [][NextMonthEdge]_vars

----------------------------------------------------------------------------
(* Specification of the loans: the store holds three accounts of any type, *)
(* owner and sign of balance, and the summary is read.                     *)

AccountTypes == {"checking", "loan", "credit"}

AccountBalances == {Dec(TRUE, 50, 0), Dec(FALSE, 100, 25)}

LoanAccountIds == 1..3

InitLoans ==
    /\ bootPc = "exported"
    /\ probe = "failed"
    /\ storageInstance = "MemStorage@1343"
    /\ storage = "MemStorage@1329"
    /\ \E types \in [LoanAccountIds -> AccountTypes],
          balances \in [LoanAccountIds -> AccountBalances],
          owners \in [LoanAccountIds -> Users] :
          accounts = [id \in LoanAccountIds |->
                        [id |-> id, type |-> types[id], balance |-> balances[id],
                         userId |-> owners[id]]]
    /\ transactions = EmptyMap
    /\ currentAccountId = 4
    /\ currentTransactionId = 1
    /\ last = NoCall
    /\ DbIdle
    /\ RoutesIdle
    /\ HttpIdle

NextLoans == GetSummary

SpecLoans == InitLoans /\ [][NextLoans]_vars

----------------------------------------------------------------------------
(* DatabaseStorage.deleteTransaction: lines 1260-1287.  Each awaited query *)
(* is one step; the calls of other requests run between the steps.         *)

\* deleteTransaction is called: nothing has been awaited yet.
DbDeleteTransactionCalled(r, id) ==
    /\ calls[r].pc = "idle"
    /\ calls' = [calls EXCEPT ![r] = [IdleCall EXCEPT !.pc = "getTransaction",
                                                      !.input.id = id]]
    /\ UNCHANGED <<dbAccounts, dbTransactions, dbSerial, reflected>>

\* this.getTransactionById(id); if (!transaction) return false
DbGetTransactionById(r) ==
    /\ calls[r].pc = "getTransaction"
    /\ LET id == calls[r].input.id
       IN  IF MapHas(dbTransactions, id)
           THEN calls' = [calls EXCEPT
                            ![r].transaction = dbTransactions[id],
                            ![r].pc = IF dbTransactions[id].accountId # Null
                                      THEN "getAccountOfDeleted" ELSE "deleteRow"]
           ELSE calls' = [calls EXCEPT ![r].pc = "returned", ![r].result = "false"]
    /\ UNCHANGED <<dbAccounts, dbTransactions, dbSerial, reflected>>

\* this.getAccountById(transaction.accountId) of deleteTransaction
DbGetAccountOfDeleted(r) ==
    /\ calls[r].pc = "getAccountOfDeleted"
    /\ LET id == calls[r].transaction.accountId
       IN  IF MapHas(dbAccounts, id)
           THEN calls' = [calls EXCEPT ![r].account = dbAccounts[id],
                            ![r].seen = reflected[id],
                            ![r].pc = "reverseBalance"]
           ELSE calls' = [calls EXCEPT ![r].pc = "deleteRow"]
    /\ UNCHANGED <<dbAccounts, dbTransactions, dbSerial, reflected>>

\* this.updateAccount(transaction.accountId, { balance }) of deleteTransaction
DbReverseBalance(r) ==
    /\ calls[r].pc = "reverseBalance"
    /\ LET id == calls[r].transaction.accountId
       IN  /\ dbAccounts' =
                 IF MapHas(dbAccounts, id)
                 THEN [dbAccounts EXCEPT ![id].balance =
                          ReversedBalance(calls[r].account, calls[r].transaction)]
                 ELSE dbAccounts
           /\ reflected' = [reflected EXCEPT ![id] =
                               calls[r].seen \ {calls[r].transaction.id}]
    /\ calls' = [calls EXCEPT ![r].pc = "deleteRow"]
    /\ UNCHANGED <<dbTransactions, dbSerial>>

\* db.delete(transactions).where(eq(transactions.id, id));
\* return (result.rowCount || 0) > 0
DbDeleteRow(r) ==
    /\ calls[r].pc = "deleteRow"
    /\ LET id == calls[r].input.id
       IN  /\ dbTransactions' = MapDelete(dbTransactions, id)
           /\ calls' = [calls EXCEPT
                          ![r].pc = "returned",
                          ![r].result = IF MapHas(dbTransactions, id)
                                        THEN "true" ELSE "false"]
    /\ UNCHANGED <<dbAccounts, dbSerial, reflected>>

DbDeletedIds == {1, 2}

DbDeleteTransactionStarts ==
    /\ \E r \in Requests, id \in DbDeletedIds : DbDeleteTransactionCalled(r, id)
    /\ UNCHANGED dbFrame

DbSelectsTransaction == (\E r \in Requests : DbGetTransactionById(r)) /\ UNCHANGED dbFrame

DbReadsAccountOfDeleted ==
    (\E r \in Requests : DbGetAccountOfDeleted(r)) /\ UNCHANGED dbFrame

DbReversesBalance == (\E r \in Requests : DbReverseBalance(r)) /\ UNCHANGED dbFrame

DbDeletesRow == (\E r \in Requests : DbDeleteRow(r)) /\ UNCHANGED dbFrame

----------------------------------------------------------------------------
(* Specification of the relational store with deletes: one expense of      *)
(* 30.00 on account 1 is stored and posted; the requests call              *)
(* createTransaction and deleteTransaction concurrently.                   *)

DbStoredRow == [id |-> 1, type |-> "expense", amount |-> Dec(FALSE, 30, 0), accountId |-> 1]

InitDbDelete ==
    /\ bootPc = "exported"
    /\ probe = "failed"
    /\ storageInstance = "MemStorage@1343"
    /\ storage = "MemStorage@1329"
    /\ accounts = DefaultAccounts
    /\ transactions = EmptyMap
    /\ currentAccountId = 3
    /\ currentTransactionId = 1
    /\ last = NoCall
    /\ dbAccounts = [DefaultAccounts EXCEPT
                        ![1].balance = PostedBalance(DefaultAccounts[1], DbStoredRow)]
    /\ dbTransactions = MapSet(EmptyMap, 1, DbStoredRow)
    /\ dbSerial = 2
    /\ calls = [r \in Requests |-> IdleCall]
    /\ reflected = [a \in DOMAIN DefaultAccounts |-> IF a = 1 THEN {1} ELSE {}]
    /\ RoutesIdle
    /\ HttpIdle

NextDbDelete ==
    \/ DbCreateTransactionStarts
    \/ DbInserts
    \/ DbReadsAccount
    \/ DbWritesAccount
    \/ DbDeleteTransactionStarts
    \/ DbSelectsTransaction
    \/ DbReadsAccountOfDeleted
    \/ DbReversesBalance
    \/ DbDeletesRow

SpecDbDelete == InitDbDelete /\ [][NextDbDelete]_vars

----------------------------------------------------------------------------
(* Concurrent requests on the in-memory store.  A handler runs until its   *)
(* await; MemStorage.createTransaction and deleteTransaction contain no    *)
(* await, so the call runs to its return before the handler is suspended,  *)
(* and the handlers of other requests run before it resumes.               *)

ConcurrentInserts == [type : Types, amount : {Dec(FALSE, 30, 0)}, accountId : {1, 2}]

\* await storage.createTransaction(...) of POST /api/transactions
HandlerCallsCreateTransaction ==
    /\ Serving
    /\ currentTransactionId <= MaxEditedTransactions
    /\ \E r \in Requests, insertTransaction \in ConcurrentInserts :
          /\ calls[r].pc = "idle"
          /\ MemCreateTransaction(insertTransaction)
          /\ calls' = [calls EXCEPT ![r].pc = "resolved",
                                    ![r].input.id = currentTransactionId]
    /\ UNCHANGED <<bootVars, dbAccounts, dbTransactions, dbSerial, reflected,
                   routeVars, httpVars>>

\* await storage.deleteTransaction(id) of DELETE /api/transactions/:id
HandlerCallsDeleteTransaction ==
    /\ Serving
    /\ \E r \in Requests, id \in 1..MaxEditedTransactions :
          /\ calls[r].pc = "idle"
          /\ MemDeleteTransaction(id)
          /\ calls' = [calls EXCEPT
                          ![r].pc = "resolved",
                          ![r].input.id = id,
                          ![r].result = IF MapHas(transactions, id) THEN "true"
                                        ELSE "false"]
    /\ UNCHANGED <<bootVars, dbAccounts, dbTransactions, dbSerial, reflected,
                   routeVars, httpVars>>

\* The handler resumes after its await and sends the response.
HandlerResumes ==
    /\ \E r \in Requests :
          /\ calls[r].pc = "resolved"
          /\ calls' = [calls EXCEPT ![r] = IdleCall]
    /\ UNCHANGED <<bootVars, memVars, last, dbAccounts, dbTransactions, dbSerial,
                   reflected, routeVars, httpVars>>

NextConcurrent ==
    \/ HandlerCallsCreateTransaction
    \/ HandlerCallsDeleteTransaction
    \/ HandlerResumes

SpecConcurrent == Init /\ [][NextConcurrent]_vars

----------------------------------------------------------------------------
(* The transfer modal of the client: header.tsx 137-340.  The requests it  *)
(* sends are handled by POST /api/transactions and PUT /api/accounts/:id.  *)

PagoDeCredito == "Pago de crédito"
PagoDeDeuda == "Pago de deuda"

\* `Pago de ${toLoan.type === 'loan' ? 'préstamo' : 'crédito'}: ${toLoan.name}`
PaymentDescription(toLoan) ==
    <<IF toLoan.type = "loan" THEN PagoDePrestamo ELSE PagoDeCredito, ": ", toLoan.name>>

\* The body of the first request of the operation.
FirstTransaction(operation) ==
    [type |-> "expense",
     amount |-> operation.amount,
     description |->
        IF operation.operationType = "transfer"
        THEN <<"Transferencia a ", accounts[operation.toAccountId].name>>
        ELSE PaymentDescription(accounts[operation.toAccountId]),
     thirdParty |-> IF operation.operationType = "transfer" THEN Transferencia
                    ELSE PagoDeDeuda,
     categoryId |-> 1,
     accountId |-> operation.fromAccountId,
     userId |-> session.userId,
     transactionDate |-> Day(clock.year, clock.month, clock.day)]

\* The body of the second request of a transfer.
IncomingTransaction(operation) ==
    [type |-> "income",
     amount |-> operation.amount,
     description |-> <<"Transferencia desde ", accounts[operation.fromAccountId].name>>,
     thirdParty |-> Transferencia,
     categoryId |-> 1,
     accountId |-> operation.toAccountId,
     userId |-> session.userId,
     transactionDate |-> Day(clock.year, clock.month, clock.day)]

\* The checks of mutationFn that throw before any request is sent.
Refused(operationType, fromAccount, toAccount, amount) ==
    \/ ParseFloat(fromAccount.balance) < ParseFloat(amount)
    \/ /\ operationType = "payment"
       /\ \/ toAccount.type \notin {"loan", "credit"}
          \/ ParseFloat(toAccount.balance) <= 0

ModalAmounts == {Dec(FALSE, 30, 0), Dec(FALSE, 200, 0)}

\* handleSubmit and the start of mutationFn: the accounts are chosen among
\* those of the user, they differ, and the amount is greater than 0.
ModalSubmits ==
    /\ modal.pc = "open"
    /\ Authenticated
    /\ \E operationType \in {"transfer", "payment"}, amount \in ModalAmounts,
          fromAccount \in GetAccountsByUserId(accounts, session.userId),
          toAccount \in GetAccountsByUserId(accounts, session.userId) :
          /\ fromAccount.id # toAccount.id
          /\ ParseFloat(amount) > 0
          /\ LET chosen ==
                    [NoOperation EXCEPT
                        !.operationType = operationType,
                        !.fromAccountId = fromAccount.id,
                        !.toAccountId = toAccount.id,
                        !.amount = amount,
                        !.loanBalance = ParseFloat(toAccount.balance),
                        !.before = ParseFloat(fromAccount.balance)
                                   + ParseFloat(toAccount.balance)]
             IN  modal' =
                    IF Refused(operationType, fromAccount, toAccount, amount)
                    THEN [chosen EXCEPT !.pc = "settled", !.result = "error"]
                    ELSE [chosen EXCEPT
                            !.pc = "sent", !.first = "sent",
                            !.second = IF operationType = "transfer" THEN "sent"
                                       ELSE "unsent"]
    /\ UNCHANGED <<bootVars, memVars, last, dbVars, routeVars, userVars,
                   categoryVars, session, reply, process>>

\* The server handles the first POST /api/transactions of the operation.
ServerPostsFirst ==
    /\ modal.first = "sent"
    /\ IF ~Authenticated
       THEN /\ Unauthorized("POST /api/transactions")
            /\ modal' = [modal EXCEPT !.first = "failed"]
            /\ UNCHANGED <<memVars, last>>
       ELSE /\ MemCreateTransaction(FirstTransaction(modal))
            /\ Answer("POST /api/transactions", 201, "", 1)
            /\ modal' = [modal EXCEPT !.first = "ok"]
    /\ UNCHANGED <<bootVars, dbVars, clock, userVars, categoryVars, session,
                   process>>

\* The server handles the second POST /api/transactions of a transfer.
ServerPostsSecond ==
    /\ modal.operationType = "transfer"
    /\ modal.second = "sent"
    /\ IF ~Authenticated
       THEN /\ Unauthorized("POST /api/transactions")
            /\ modal' = [modal EXCEPT !.second = "failed"]
            /\ UNCHANGED <<memVars, last>>
       ELSE /\ MemCreateTransaction(IncomingTransaction(modal))
            /\ Answer("POST /api/transactions", 201, "", 1)
            /\ modal' = [modal EXCEPT !.second = "ok"]
    /\ UNCHANGED <<bootVars, dbVars, clock, userVars, categoryVars, session,
                   process>>

\* Math.max(0, loanBalance - amount).toFixed(2)
NewLoanBalance(loanBalance, amount) ==
    ToFixed2(IF loanBalance - ParseFloat(amount) > 0
             THEN loanBalance - ParseFloat(amount) ELSE 0)

\* After the payment was stored the client sends PUT /api/accounts/:id with
\* the new balance of the loan, and the server handles it.
ServerPutsLoan ==
    /\ modal.operationType = "payment"
    /\ modal.pc = "sent"
    /\ modal.first = "ok"
    /\ modal.second = "unsent"
    /\ IF ~Authenticated
       THEN /\ Unauthorized("PUT /api/accounts/:id")
            /\ modal' = [modal EXCEPT !.second = "failed"]
            /\ UNCHANGED <<memVars, last>>
       ELSE /\ MemUpdateAccount(
                  modal.toAccountId,
                  [fields |-> {"balance"},
                   values |-> [balance |-> NewLoanBalance(modal.loanBalance,
                                                          modal.amount)]])
            /\ IF MapHas(accounts, modal.toAccountId)
               THEN /\ Answer("PUT /api/accounts/:id", 200, "", 1)
                    /\ modal' = [modal EXCEPT !.second = "ok"]
               ELSE /\ Answer("PUT /api/accounts/:id", 404, "Account not found", 1)
                    /\ modal' = [modal EXCEPT !.second = "failed"]
    /\ UNCHANGED <<bootVars, dbVars, clock, userVars, categoryVars, session,
                   process>>

\* The promise of mutationFn settles: onSuccess when every response was
\* ok, onError as soon as one was not.
ModalSettles ==
    /\ modal.pc = "sent"
    /\ \/ "failed" \in {modal.first, modal.second}
       \/ modal.first = "ok" /\ modal.second = "ok"
    /\ modal' = [modal EXCEPT
                   !.pc = "settled",
                   !.result = IF modal.first = "ok" /\ modal.second = "ok"
                              THEN "success" ELSE "error"]
    /\ UNCHANGED <<bootVars, memVars, last, dbVars, routeVars, userVars,
                   categoryVars, session, reply, process>>

----------------------------------------------------------------------------
(* Specification of the modal: user 1 holds a checking, a savings, a loan  *)
(* and a credit account, submits one operation of the modal, may log out   *)
(* in another tab, and the analytics routes are read.                      *)

ModalAccounts ==
    [id \in 1..4 |->
        [id |-> id,
         name |-> <<"Corriente", "Ahorros", "Hipoteca", "Tarjeta">>[id],
         type |-> <<"checking", "savings", "loan", "credit">>[id],
         balance |-> <<Dec(FALSE, 100, 0), Dec(FALSE, 50, 0), Dec(FALSE, 80, 0),
                       Dec(FALSE, 20, 0)>>[id],
         userId |-> 1]]

InitModal ==
    /\ bootPc = "exported"
    /\ probe = "failed"
    /\ storageInstance = "MemStorage@1343"
    /\ storage = "MemStorage@1329"
    /\ accounts = ModalAccounts
    /\ transactions = EmptyMap
    /\ currentAccountId = 5
    /\ currentTransactionId = 1
    /\ last = NoCall
    /\ DbIdle
    /\ RoutesIdle
    /\ users = DefaultUsers
    /\ currentUserId = 2
    /\ categories = DefaultCategories
    /\ currentCategoryId = 8
    /\ session = [userId |-> 1]
    /\ reply = NoReply
    /\ process = "running"
    /\ modal = NoOperation

NextModal ==
    \/ ModalSubmits
    \/ ServerPostsFirst
    \/ ServerPostsSecond
    \/ ServerPutsLoan
    \/ ModalSettles
    \/ Logout
    \/ GetSummary
    \/ GetExpensesByCategory
    \/ GetMonthlyTrends

SpecModal == InitModal /\ [][NextModal]_vars

----------------------------------------------------------------------------
(* Properties *)

ExistingRows(A, type) ==
    {transactions[id] : id \in
        {i \in DOMAIN transactions :
            transactions[i].accountId = A /\ transactions[i].type = type}}

Linked(row, accts) == row.accountId # Null /\ MapHas(accts, row.accountId)

\* C1: after any sequence of createTransaction and deleteTransaction calls
\* (and no other call), the stored balance of every account equals its
\* initial balance plus the amounts of the existing income transactions on
\* it minus the amounts of the existing expense transactions on it.
C1_BalanceIsInitialPlusPostings ==
    \A A \in DOMAIN accounts :
            accounts[A].balance =
                ToFixed2(ParseFloat(DefaultAccounts[A].balance)
                         + SumAmounts(ExistingRows(A, "income"))
                         - SumAmounts(ExistingRows(A, "expense")))

C1_Witness ==
    /\ last.op = "deleteTransaction" /\ last.found /\ last.row.accountId = 1
    /\ ExistingRows(1, "income") # {}
    /\ ExistingRows(1, "expense") # {}

\* C2: a createTransaction that follows the deleteTransaction of a row
\* linked to an existing account, with the type, amount and accountId of the
\* deleted row, leaves that account's balance as it was before the delete.
C2_DeleteThenRecreateRestoresBalance ==
    ( /\ last.op = "createTransaction"
      /\ last.undone.any
      /\ Linked(last.undone.row, last.undone.before)
      /\ last.row.type = last.undone.row.type
      /\ last.row.amount = last.undone.row.amount
      /\ last.row.accountId = last.undone.row.accountId )
    => /\ MapHas(accounts, last.row.accountId)
       /\ accounts[last.row.accountId].balance =
              last.undone.before[last.row.accountId].balance

C2_Witness ==
    /\ last.op = "createTransaction"
    /\ last.undone.any
    /\ Linked(last.undone.row, last.undone.before)
    /\ last.row.type = "expense"
    /\ last.row.type = last.undone.row.type
    /\ last.row.amount = last.undone.row.amount
    /\ last.row.accountId = last.undone.row.accountId
    /\ last.undone.before[last.row.accountId].balance
          # DefaultAccounts[last.row.accountId].balance

\* C3: deleteTransaction of an existing row linked to an existing account
\* returns true, removes the row, moves that account's balance by -amount
\* (income) or +amount (expense) computed from the row as it was stored, and
\* leaves every other account as it was.
C3_DeleteReversesPosting ==
    ( /\ last.op = "deleteTransaction"
      /\ MapHas(last.before, last.row.accountId)
      /\ last.row.id = last.id /\ last.row.accountId # Null )
    => /\ last.found
       /\ ~MapHas(transactions, last.id)
       /\ DOMAIN accounts = DOMAIN last.before
       /\ ParseFloat(accounts[last.row.accountId].balance) =
              ParseFloat(last.before[last.row.accountId].balance)
              + (IF last.row.type = "income" THEN 0 - ParseFloat(last.row.amount)
                 ELSE ParseFloat(last.row.amount))
       /\ \A other \in DOMAIN accounts \ {last.row.accountId} :
              accounts[other] = last.before[other]
       /\ [accounts EXCEPT ![last.row.accountId].balance = Dec(FALSE, 0, 0)] =
              [last.before EXCEPT ![last.row.accountId].balance = Dec(FALSE, 0, 0)]

\* The scenario of the specification on the seeded account 1 (87450.30):
\* expense 30.00, income 20.00, delete the expense: the balance goes from
\* 87440.30 to 87470.30.
C3_Witness ==
    /\ last.op = "deleteTransaction" /\ last.found
    /\ last.row.accountId = 1 /\ last.row.type = "expense"
    /\ last.row.amount = Dec(FALSE, 30, 0)
    /\ last.before[1].balance = Dec(FALSE, 87440, 30)
    /\ accounts[1].balance = Dec(FALSE, 87470, 30)
    /\ \E i \in DOMAIN transactions :
          /\ transactions[i].accountId = 1 /\ transactions[i].type = "income"
          /\ transactions[i].amount = Dec(FALSE, 20, 0)

\* C5: updateTransaction of an existing row sets the fields named in the
\* update, keeps the row's other fields, and leaves every account as it was,
\* whichever of type, amount and accountId it changes.
C5_UpdatePatchesRowOnly ==
    (last.op = "updateTransaction" /\ last.found)
    => /\ accounts = last.before
       /\ MapHas(transactions, last.id)
       /\ \A f \in TransactionFields :
              transactions[last.id][f] =
                  IF f \in last.fields THEN UpdateValues[f] ELSE last.row[f]
       /\ transactions[last.id].id = last.row.id

C5_Witness ==
    /\ last.op = "updateTransaction" /\ last.found
    /\ last.fields = {"type", "amount", "accountId"}
    /\ last.row.type = "expense" /\ last.row.accountId = 1
    /\ transactions[last.id].accountId = 2
    /\ accounts = last.before

C7_ExportedStorageFollowsProbe ==
    /\ probe = "ok" => storage = "DatabaseStorage@1336"
    /\ probe = "failed" => storage \in {"MemStorage@1329", "MemStorage@1343"}

RowsOf(ids, table) == {table[i] : i \in ids \cap DOMAIN table}

SignedSum(rows) ==
    SumAmounts({t \in rows : t.type = "income"})
    - SumAmounts({t \in rows : t.type # "income"})

\* C4: with the relational store, the stored balance of an account is the
\* initial balance plus the postings seen by the read of the last call that
\* wrote it plus that call's own posting: two createTransaction calls that
\* both read before either writes leave both rows stored and a balance that
\* holds only one of the two postings.
C4_BalanceHoldsLastWritersView ==
    \A a \in DOMAIN dbAccounts :
        /\ reflected[a] \subseteq DOMAIN dbTransactions
        /\ dbAccounts[a].balance =
              ToFixed2(ParseFloat(DefaultAccounts[a].balance)
                       + SignedSum(RowsOf(reflected[a], dbTransactions)))

C4_Witness ==
    /\ \A r \in Requests : calls[r].pc = "returned"
    /\ \A r \in Requests : calls[r].transaction.accountId = 1
    /\ \A r \in Requests : MapHas(dbTransactions, calls[r].transaction.id)
    /\ Cardinality(DOMAIN dbTransactions) = MaxRequests
    /\ Cardinality(reflected[1]) = 1
    /\ dbAccounts[1].balance #
          ToFixed2(ParseFloat(DefaultAccounts[1].balance)
                   + SignedSum(RowsOf(DOMAIN dbTransactions, dbTransactions)))

----------------------------------------------------------------------------
(* Analytics *)

\* C8: in a summary, incomeChangePercent is exactly 0 when prevMonthIncome
\* is 0 and otherwise (monthlyIncome - prevMonthIncome) / prevMonthIncome
\* * 100, and expenseChangePercent is the same function of the expense
\* totals, whatever the totals of the current month are.
C8_ChangePercentIsZeroOrRatio ==
    resp.route = "summary" =>
        /\ resp.body.incomeChangePercent =
              IF resp.body.prevMonthIncome = 0 THEN Zero
              ELSE [num |-> (resp.body.monthlyIncome - resp.body.prevMonthIncome) * 100,
                    den |-> resp.body.prevMonthIncome]
        /\ resp.body.expenseChangePercent =
              IF resp.body.prevMonthExpenses = 0 THEN Zero
              ELSE [num |-> (resp.body.monthlyExpenses - resp.body.prevMonthExpenses) * 100,
                    den |-> resp.body.prevMonthExpenses]

\* A summary of a current month with income and expenses after a month
\* whose only rows are marked, so that both previous totals are 0.
C8_Witness ==
    /\ resp.route = "summary"
    /\ resp.body.prevMonthIncome = 0
    /\ resp.body.prevMonthExpenses = 0
    /\ resp.body.monthlyIncome > 0
    /\ resp.body.monthlyExpenses > 0
    /\ \E id \in DOMAIN transactions :
          /\ transactions[id].userId = resp.userId
          /\ transactions[id].transactionDate = LedgerDate(1)

\* The month a key names, counted in months.
KeyMonth(key) ==
    key[1] * 12 + (IF Len(key) = 3 THEN key[2] * 10 + key[3] ELSE key[2])

\* The months in which the user has a row, counted in months.
MonthsPresent(userId) ==
    {t.transactionDate.year * 12 + t.transactionDate.month + 1 :
        t \in GetTransactionsByUserId(transactions, userId)}

\* C9: the monthly-trends output has at most 6 entries, its month keys are
\* strictly ascending (so pairwise distinct), they are exactly the 6 latest
\* months in which the user has a row (all of them when there are fewer),
\* and each entry has net = income - expenses.
C9_TrendsAreTheLastSixMonths ==
    resp.route = "monthly-trends" =>
        LET out == resp.body
            present == MonthsPresent(resp.userId)
        IN  /\ Len(out) <= 6
            /\ \A i, j \in 1..Len(out) :
                  i < j => /\ KeyMonth(out[i].month) < KeyMonth(out[j].month)
                           /\ LexLess(out[i].month, out[j].month)
            /\ {KeyMonth(out[i].month) : i \in 1..Len(out)} =
                  {m \in present : Cardinality({n \in present : n > m}) < 6}
            /\ \A i \in 1..Len(out) : out[i].net = out[i].income - out[i].expenses

\* Trends of a user with rows in seven months: six entries, the oldest
\* month left out, across the change of year.
C9_Witness ==
    /\ resp.route = "monthly-trends"
    /\ Cardinality(MonthsPresent(resp.userId)) = 7
    /\ Len(resp.body) = 6
    /\ resp.body[1].month[1] < resp.body[6].month[1]
    /\ resp.body[6].net # 0

Marked(t) == t.thirdParty = Transferencia \/ Includes(t.description, PagoDePrestamo)

\* The response of a route computed over a given table of transactions.
ResponseOver(route, userId, table) ==
    IF route = "summary"
    THEN Summary(GetTransactionsByUserId(table, userId),
                 GetAccountsByUserId(accounts, userId), clock)
    ELSE IF route = "expenses-by-category"
    THEN ExpensesByCategory(GetTransactionsByUserId(table, userId), categories)
    ELSE MonthlyTrends(GetTransactionsByUserId(table, userId))

\* C10: every response of the summary, expenses-by-category and
\* monthly-trends routes is the response the route would give if any one
\* marked transaction of the user (thirdParty "Transferencia", or a
\* description containing "Pago de préstamo") were not in the store.
C10_MarkedRowsLeaveNoTrace ==
    resp.route # "none" =>
        \A id \in DOMAIN transactions :
            (Marked(transactions[id]) /\ transactions[id].userId = resp.userId)
                => resp.body = ResponseOver(resp.route, resp.userId,
                                            MapDelete(transactions, id))

\* The rows of the user that the expenses-by-category route counts.
CountedExpenses(userId) ==
    {t \in GetTransactionsByUserId(transactions, userId) :
        t.type = "expense" /\ ~Marked(t)}

\* The name of the stored category a row refers to, or the fixed label when
\* it refers to none.
ResolvedName(t) ==
    IF t.categoryId # Null /\ t.categoryId \in DOMAIN categories
    THEN categories[t.categoryId]
    ELSE "Sin categoría"

\* C11: the expenses-by-category response has exactly the names to which
\* some counted expense of the user resolves (the category's name, or
\* "Sin categoría" when the categoryId is null or names no stored category)
\* as keys, each mapped to the sum of the amounts of those expenses, so that
\* categories of equal name share one entry.
C11_ExpensesAreSummedByResolvedName ==
    resp.route = "expenses-by-category" =>
        /\ DOMAIN resp.body = {ResolvedName(t) : t \in CountedExpenses(resp.userId)}
        /\ \A name \in DOMAIN resp.body :
              resp.body[name] =
                  SumAmounts({t \in CountedExpenses(resp.userId) :
                                 ResolvedName(t) = name})

HasNoTransactions(userId) ==
    \A id \in DOMAIN transactions : transactions[id].userId # userId

\* C12 as stated: for a user with no transactions every numeric field of
\* the summary is 0, totalBalance and pendingLoans included, and the
\* monthly trends are the empty list.
C12_NoTransactionsAllZero ==
    HasNoTransactions(resp.userId) =>
        /\ resp.route = "summary" =>
              /\ resp.body.totalBalance = 0
              /\ resp.body.monthlyIncome = 0
              /\ resp.body.monthlyExpenses = 0
              /\ resp.body.pendingLoans = 0
              /\ resp.body.netCashFlow = 0
              /\ resp.body.incomeChangePercent = Zero
              /\ resp.body.expenseChangePercent = Zero
              /\ resp.body.prevMonthIncome = 0
              /\ resp.body.prevMonthExpenses = 0
        /\ resp.route = "monthly-trends" => resp.body = <<>>

\* The balances of the user's accounts, and of those that are loans or
\* credits with a positive balance.
OwnBalances(userId, types) ==
    LET own == {a \in DOMAIN accounts :
                   accounts[a].userId = userId /\ accounts[a].type \in types}
    IN  [a \in own |-> ParseFloat(accounts[a].balance)]

RECURSIVE SumOf(_)
SumOf(f) ==
    IF DOMAIN f = {} THEN 0
    ELSE LET a == CHOOSE x \in DOMAIN f : TRUE
         IN  f[a] + SumOf([x \in DOMAIN f \ {a} |-> f[x]])

\* C12, amended: for a user with no transactions the fields of the summary
\* that are computed from transactions (monthlyIncome, monthlyExpenses,
\* netCashFlow, both change percents, both previous-month totals) are 0 and
\* the monthly trends are the empty list; totalBalance is the sum of the
\* balances of the user's accounts and pendingLoans the sum of the positive
\* balances of the user's loan and credit accounts, so these two are 0 when
\* the user has no accounts.
C12_NoTransactionsZeroButBalances ==
    HasNoTransactions(resp.userId) =>
        /\ resp.route = "summary" =>
              /\ resp.body.totalBalance =
                    SumOf(OwnBalances(resp.userId, {"checking", "savings", "loan", "credit"}))
              /\ resp.body.pendingLoans =
                    SumOf([a \in DOMAIN OwnBalances(resp.userId, {"loan", "credit"}) |->
                             IF OwnBalances(resp.userId, {"loan", "credit"})[a] > 0
                             THEN OwnBalances(resp.userId, {"loan", "credit"})[a]
                             ELSE 0])
              /\ (GetAccountsByUserId(accounts, resp.userId) = {} =>
                    resp.body.totalBalance = 0 /\ resp.body.pendingLoans = 0)
              /\ resp.body.monthlyIncome = 0
              /\ resp.body.monthlyExpenses = 0
              /\ resp.body.netCashFlow = 0
              /\ resp.body.incomeChangePercent = Zero
              /\ resp.body.expenseChangePercent = Zero
              /\ resp.body.prevMonthIncome = 0
              /\ resp.body.prevMonthExpenses = 0
        /\ resp.route = "monthly-trends" => resp.body = <<>>

\* The summary of user 2, who has neither transactions nor accounts, while
\* user 1 has rows in both months.
C12_Witness ==
    /\ resp.route = "summary"
    /\ resp.userId = 2
    /\ HasNoTransactions(2)
    /\ GetAccountsByUserId(accounts, 2) = {}
    /\ resp.body.totalBalance = 0
    /\ {1, 4} \subseteq DOMAIN transactions

\* Whether a row is dated on a calendar day of the month of the date.
InMonthOf(t, date) ==
    /\ t.transactionDate.year = date.year
    /\ t.transactionDate.month = date.month

\* C18: the summary's monthlyIncome and monthlyExpenses are the sums of the
\* user's unmarked income and expense rows dated on any calendar day of the
\* current month, the last day included, and prevMonthIncome and
\* prevMonthExpenses the same for the previous month.
C18_WholeMonthIsCounted ==
    resp.route = "summary" =>
        LET rows == {t \in GetTransactionsByUserId(transactions, resp.userId) :
                        ~Marked(t)}
            previous == NewDate(clock.year, clock.month - 1, 1)
            Total(type, date) ==
                SumAmounts({t \in rows : t.type = type /\ InMonthOf(t, date)})
        IN  /\ resp.body.monthlyIncome = Total("income", clock)
            /\ resp.body.monthlyExpenses = Total("expense", clock)
            /\ resp.body.prevMonthIncome = Total("income", previous)
            /\ resp.body.prevMonthExpenses = Total("expense", previous)

GuardedRoutes ==
    {"GET /api/auth/me", "GET /api/categories", "POST /api/categories",
     "PUT /api/categories/:id", "DELETE /api/categories/:id"}

\* C13: a login whose username no user has and a login with a known
\* username and another password get the same response, 401 with the
\* message "Invalid credentials", never a not-found response, and the
\* session's userId stays as it was.
C13_UnknownUserAndWrongPasswordAlike ==
    [][reply'.route = "POST /api/auth/login" /\ reply'.status # 400 =>
         LET user == GetUserByUsername(reply'.request.username)
         IN  /\ (user = NoUser \/ user.password # reply'.request.password) =>
                   /\ reply'.status = 401
                   /\ reply'.message = "Invalid credentials"
                   /\ session' = session
             /\ reply'.status # 404]_vars

\* A login with a username that no user has was answered while the
\* session had no userId.
C13_Witness ==
    /\ reply.route = "POST /api/auth/login"
    /\ reply.request.username = "ana"
    /\ GetUserByUsername("ana") = NoUser
    /\ reply.status = 401
    /\ session = NoSession

\* C14: a guarded route called with a session that has no userId answers
\* 401 "Authentication required" without a storage call and without a
\* change to what is stored; the session gets a userId only in a successful
\* login or registration, and has none after a logout.
C14_GuardedRoutesNeedSessionUser ==
    [][/\ (session.userId = Null /\ reply'.route \in GuardedRoutes) =>
             /\ reply'.status = 401
             /\ reply'.message = "Authentication required"
             /\ reply'.calls = 0
             /\ UNCHANGED <<users, categories, accounts, transactions, session>>
       /\ (session'.userId # Null /\ session'.userId # session.userId) =>
             \/ reply'.route = "POST /api/auth/login" /\ reply'.status = 200
             \/ reply'.route = "POST /api/auth/register" /\ reply'.status = 201
       /\ reply'.route = "POST /api/auth/logout" => session'.userId = Null]_vars

\* A guarded route that changes categories was refused after a logout of a
\* registered user.
C14_Witness ==
    /\ reply.route = "POST /api/categories"
    /\ reply.status = 401
    /\ session.userId = Null
    /\ MapHas(users, 2)

\* Whether the id of a PUT or DELETE by id is stored.
IsStored(route, id) ==
    IF route \in {"PUT /api/categories/:id", "DELETE /api/categories/:id"}
    THEN MapHas(categories, id)
    ELSE IF route \in {"PUT /api/accounts/:id", "DELETE /api/accounts/:id"}
    THEN MapHas(accounts, id)
    ELSE MapHas(transactions, id)

ByIdRoutes ==
    {"PUT /api/categories/:id", "DELETE /api/categories/:id",
     "PUT /api/accounts/:id", "DELETE /api/accounts/:id",
     "PUT /api/transactions/:id", "DELETE /api/transactions/:id"}

\* C15: an update or a delete of a category, an account or a transaction
\* by an id that is not stored (the payload of an update being one that the
\* schema accepts) finds nothing, creates nothing, leaves every stored
\* entity and every account balance as it was, and the route answers 404.
C15_MissingIdChangesNothing ==
    [][(/\ reply'.route \in ByIdRoutes
        /\ reply'.status \notin {400, 401}
        /\ ~IsStored(reply'.route, reply'.request.id)) =>
           /\ reply'.status = 404
           /\ ~last'.found
           /\ UNCHANGED <<users, categories, accounts, transactions,
                          currentAccountId, currentTransactionId,
                          currentCategoryId>>]_vars

\* A delete of a transaction id that is not stored was answered 404 while
\* both users' rows and accounts were stored.
C15_Witness ==
    /\ reply.route = "DELETE /api/transactions/:id"
    /\ reply.request.id = 9
    /\ reply.status = 404
    /\ last.op = "deleteTransaction"
    /\ DOMAIN transactions = {1, 3}
    /\ DOMAIN accounts = {1, 3}

\* What the statement calls a payload that fails validation.
MissesRequiredField(route, body) ==
    /\ route = "POST /api/transactions"
    /\ \E f \in {"type", "amount", "description", "categoryId", "accountId",
                 "transactionDate"} : f \notin body.fields

HasBadType(body) ==
    "type" \in body.fields /\ body.values.type \notin {"expense", "income"}

HasBadDate(body) ==
    "transactionDate" \in body.fields /\ body.values.transactionDate = Unparseable

HasBadBalance(route, body) ==
    /\ route = "PUT /api/accounts/:id"
    /\ "balance" \in body.fields
    /\ body.values.balance.json # "string"

\* C16: a POST or PUT whose payload misses a required field, has a type
\* outside {expense, income}, has a transactionDate that does not parse, or
\* has a field of the wrong JSON type is answered 400, and users,
\* categories, accounts with their balances and transactions stay as they
\* were.
C16_RejectedPayloadChangesNothing ==
    [][(/\ reply'.route \in {"POST /api/transactions", "PUT /api/transactions/:id",
                             "PUT /api/accounts/:id"}
        /\ reply'.status # 401
        /\ \/ MissesRequiredField(reply'.route, reply'.request.body)
           \/ HasBadBalance(reply'.route, reply'.request.body)
           \/ /\ reply'.route # "PUT /api/accounts/:id"
              /\ \/ HasBadType(reply'.request.body)
                 \/ HasBadDate(reply'.request.body)) =>
           /\ reply'.status = 400
           /\ UNCHANGED <<users, categories, accounts, transactions,
                          currentAccountId, currentTransactionId>>]_vars

\* A POST without a description was answered 400 after a PUT had patched
\* the description of row 1.
C16_Witness ==
    /\ reply.route = "POST /api/transactions"
    /\ "description" \notin reply.request.body.fields
    /\ reply.status = 400
    /\ MapHas(transactions, 1)
    /\ transactions[1].description = <<"pedido">>

\* C19: every transaction that GET /api/transactions returns, with or
\* without startDate and endDate, has the userId of the session.
C19_OnlyOwnTransactionsReturned ==
    resp.route = "GET /api/transactions" =>
        \A t \in resp.body : t.userId = resp.userId

\* C20: a PUT or DELETE on /api/accounts/:id or /api/transactions/:id leaves
\* every account and every transaction of another user stored and as it
\* was, the balance of the account included.
C20_OthersEntitiesUntouched ==
    [][(/\ reply'.route \in {"PUT /api/accounts/:id", "DELETE /api/accounts/:id",
                             "PUT /api/transactions/:id",
                             "DELETE /api/transactions/:id"}
        /\ session.userId # Null) =>
           /\ \A a \in DOMAIN accounts :
                 accounts[a].userId # session.userId =>
                    MapHas(accounts', a) /\ accounts'[a] = accounts[a]
           /\ \A t \in DOMAIN transactions :
                 transactions[t].userId # session.userId =>
                    MapHas(transactions', t) /\ transactions'[t] = transactions[t]]_vars

\* C17: no failure of the storage or of the database ends the process, so
\* that every request is answered.
C17_ProcessKeepsRunning == process = "running"

\* C21: no two stored users have the same username and no two have the
\* same email, and a registration whose username or email a stored user
\* has is answered 400 and creates no user.
C21_UsernamesAndEmailsStayUnique ==
    [][/\ \A a, b \in DOMAIN users' :
             a # b => /\ users'[a].username # users'[b].username
                      /\ users'[a].email # users'[b].email
       /\ (/\ reply'.route = "POST /api/auth/register"
           /\ \E id \in DOMAIN users :
                 \/ users[id].username = reply'.request.username
                 \/ users[id].email = reply'.request.email) =>
              /\ reply'.status = 400
              /\ users' = users
              /\ currentUserId' = currentUserId]_vars

\* A registration with a free username and the email of a registered user
\* was refused after two users had been created.
C21_Witness ==
    /\ reply.route = "POST /api/auth/register"
    /\ reply.message = "Email already exists"
    /\ reply.request.username = "eva"
    /\ reply.request.email = "ana@empresa.com"
    /\ DOMAIN users = {1, 2}

\* C30: a successful registration stores the user with the username and
\* password of the request and the role employee and logs the session in
\* as that user; a login with the username and password of a stored user
\* succeeds and sets the session's userId to that user's id, and a login
\* with that username and another password is answered 401.
C30_RegisteredUserCanLogIn ==
    [][/\ (reply'.route = "POST /api/auth/register" /\ reply'.status = 201) =>
             /\ session'.userId = currentUserId
             /\ MapHas(users', currentUserId)
             /\ ~MapHas(users, currentUserId)
             /\ users'[currentUserId].username = reply'.request.username
             /\ users'[currentUserId].password = reply'.request.password
             /\ users'[currentUserId].role = "employee"
       /\ (reply'.route = "POST /api/auth/login" /\ reply'.status # 400) =>
             \A id \in DOMAIN users :
                users[id].username = reply'.request.username =>
                   IF users[id].password = reply'.request.password
                   THEN reply'.status = 200 /\ session'.userId = id
                   ELSE reply'.status = 401 /\ session' = session]_vars

\* The user registered as ana logged in again after a logout.
C30_Witness ==
    /\ MapHas(users, 2)
    /\ users[2].username = "ana"
    /\ reply.route = "POST /api/auth/login"
    /\ reply.request.username = "ana"
    /\ reply.status = 200
    /\ session.userId = 2

\* C24: the summary's pendingLoans is the sum, over the user's accounts of
\* type loan or credit, of the balance when it is positive and of 0
\* otherwise; it is never negative, and accounts of other types add nothing.
C24_PendingLoansSumPositiveDebts ==
    resp.route = "summary" =>
        LET debts == OwnBalances(resp.userId, {"loan", "credit"})
        IN  /\ resp.body.pendingLoans =
                  SumOf([a \in DOMAIN debts |-> IF debts[a] > 0 THEN debts[a] ELSE 0])
            /\ resp.body.pendingLoans >= 0

\* The summary of a user who owns a loan with a positive balance, a credit
\* with a negative balance and a checking account.
C24_Witness ==
    /\ resp.route = "summary"
    /\ resp.userId = 1
    /\ \A a \in 1..3 : accounts[a].userId = 1
    /\ accounts[1].type = "loan" /\ ParseFloat(accounts[1].balance) > 0
    /\ accounts[2].type = "credit" /\ ParseFloat(accounts[2].balance) < 0
    /\ accounts[3].type = "checking" /\ ParseFloat(accounts[3].balance) > 0
    /\ resp.body.pendingLoans = 10025

\* C25: every transaction stored through POST /api/transactions or PUT
\* /api/transactions/:id has an amount greater than zero, and a payload
\* whose amount is zero or negative is answered 400 and changes no account
\* balance.
C25_StoredAmountsArePositive ==
    [][reply'.route \in {"POST /api/transactions", "PUT /api/transactions/:id"} =>
         /\ \A t \in DOMAIN transactions' : ParseFloat(transactions'[t].amount) > 0
         /\ (/\ reply'.status # 401
             /\ "amount" \in reply'.request.body.fields
             /\ ParseFloat(reply'.request.body.values.amount) <= 0) =>
                reply'.status = 400 /\ accounts' = accounts]_vars

\* The rows that the payment operation of the modal stored.
DebtPayments == {id \in DOMAIN transactions : transactions[id].thirdParty = PagoDeDeuda}

\* C26: a payment of the modal to a loan or to a credit account is left out
\* of monthlyExpenses and netCashFlow, of expenses-by-category and of
\* monthly-trends: every response is the one the route would give if the
\* payments were not stored.
C26_DebtPaymentsAreNotExpenses ==
    resp.route \in {"summary", "expenses-by-category", "monthly-trends"} =>
        LET without == [id \in DOMAIN transactions \ DebtPayments |-> transactions[id]]
            expected == ResponseOver(resp.route, resp.userId, without)
        IN  IF resp.route = "summary"
            THEN /\ resp.body.monthlyExpenses = expected.monthlyExpenses
                 /\ resp.body.netCashFlow = expected.netCashFlow
            ELSE resp.body = expected

\* C29: when a transfer of the modal has settled and none of its requests
\* is in flight, both postings are stored or neither is, and the two
\* balances add up to what they added up to before; a transfer whose source
\* balance is less than the amount sends no request.
C29_TransferIsAllOrNothing ==
    (/\ modal.operationType = "transfer"
     /\ modal.pc = "settled"
     /\ "sent" \notin {modal.first, modal.second}) =>
        /\ (modal.first = "ok") <=> (modal.second = "ok")
        /\ ParseFloat(accounts[modal.fromAccountId].balance)
              + ParseFloat(accounts[modal.toAccountId].balance) = modal.before
        /\ modal.before - modal.loanBalance < ParseFloat(modal.amount) =>
              modal.first = "unsent" /\ modal.second = "unsent"

\* The calls of deleteTransaction on a transaction that have returned.
ReturnedDeletes(id) ==
    {r \in Requests : /\ calls[r].pc = "returned"
                      /\ calls[r].result # "none"
                      /\ calls[r].input.id = id}

\* No createTransaction call has been made.
OnlyDeletesCalled == \A r \in Requests : calls[r].input.type = "none"

\* C22: with the relational store, in every state between two awaited
\* queries, the balance of an existing account holds the posting of every
\* stored transaction that names the account: no row is stored before its
\* posting is applied, and none stays stored after its posting was reversed.
C22_StoredRowsArePosted ==
    \A id \in DOMAIN dbTransactions :
        LET t == dbTransactions[id]
        IN  (t.accountId # Null /\ MapHas(dbAccounts, t.accountId)) =>
                id \in reflected[t.accountId]

\* C28: with the relational store, deleteTransaction calls on the same
\* stored transaction reverse its posting at most once (the balance never
\* exceeds the balance before the posting), and when two of them have
\* returned exactly one has returned true.
C28_ConcurrentDeletesReverseOnce ==
    OnlyDeletesCalled =>
        /\ ParseFloat(dbAccounts[1].balance) <= ParseFloat(DefaultAccounts[1].balance)
        /\ Cardinality(ReturnedDeletes(1)) = 2 =>
              Cardinality({r \in ReturnedDeletes(1) : calls[r].result = "true"}) = 1

\* C23: deleteAccount and deleteCategory remove the named account or
\* category and nothing else: the stored transactions, with their
\* categoryId and accountId, stay as they were; deleteTransaction of a row
\* whose account has been deleted returns true, removes the row and leaves
\* the accounts as they were.
C23_DeletesDoNotCascade ==
    [][LET id == reply'.request.id
       IN  /\ (reply'.route = "DELETE /api/accounts/:id" /\ reply'.status # 401) =>
                 /\ transactions' = transactions
                 /\ accounts' = MapDelete(accounts, id)
                 /\ categories' = categories
           /\ (reply'.route = "DELETE /api/categories/:id" /\ reply'.status # 401) =>
                 /\ transactions' = transactions
                 /\ accounts' = accounts
                 /\ categories' = MapDelete(categories, id)
           /\ (/\ reply'.route = "DELETE /api/transactions/:id"
               /\ reply'.status # 401
               /\ MapHas(transactions, id)
               /\ transactions[id].accountId # Null
               /\ ~MapHas(accounts, transactions[id].accountId)) =>
                 /\ reply'.status = 200
                 /\ transactions' = MapDelete(transactions, id)
                 /\ accounts' = accounts]_vars

\* Transaction 1 was deleted after its account and its category had been.
C23_Witness ==
    /\ reply.route = "DELETE /api/transactions/:id"
    /\ reply.status = 200
    /\ last.op = "deleteTransaction" /\ last.id = 1 /\ last.found
    /\ last.row.accountId = 1 /\ last.row.categoryId = 1
    /\ ~MapHas(accounts, 1)
    /\ ~MapHas(categories, 1)
    /\ ~MapHas(transactions, 1)
    /\ MapHas(transactions, 3)

\* The postings of the stored transactions of an account, in hundredths.
StoredPostings(a) ==
    SignedSum({transactions[id] : id \in {i \in DOMAIN transactions :
                                            transactions[i].accountId = a}})

\* C27: with the in-memory store and requests in flight at the same time,
\* no posting and no reversal is lost: in every state the balance of every
\* account is its initial balance plus the postings of the stored
\* transactions on it.
C27_NoPostingIsLost ==
    \A a \in DOMAIN accounts :
        ParseFloat(accounts[a].balance) - ParseFloat(DefaultAccounts[a].balance) =
            StoredPostings(a)

\* Every request is in flight: one has created a row on account 1, which
\* is stored, and another has deleted a row of account 1.
C27_Witness ==
    /\ \A r \in Requests : calls[r].pc = "resolved"
    /\ \E r \in Requests : calls[r].result = "true"
    /\ \E r \in Requests : calls[r].result = "none" /\ MapHas(transactions, calls[r].input.id)
    /\ last.op = "deleteTransaction" /\ last.row.accountId = 1
    /\ \E i \in DOMAIN transactions : transactions[i].accountId = 1

====
